---- MODULE Spec2Model ----
(***************************************************************************)
(* Model of the LinkVault bookmark collection (src/App.tsx): the dedup key *)
(* of a URL (getDedupKey), the duplicate merge (mergeTwoLinks,             *)
(* mergeDuplicates) and the handlers that change the collection.           *)
(*                                                                         *)
(* A JavaScript string is a sequence of one-character strings, so that     *)
(* trimming, lower-casing, parsing and serialising are computed character  *)
(* by character.  An optional number (number | undefined) is <<>> or <<n>>.*)
(***************************************************************************)
EXTENDS Integers, Sequences, FiniteSets, TLC

VARIABLES
    links,        \* App state `links`: the collection, newest first
    inputValue,   \* App state `inputValue`: the text of the URL box
    error,        \* App state `error`: the message shown, "" for null
    isLoading,    \* App state `isLoading`
    pendingAdd,   \* agregarEnlace suspended at `await fetchMetadata(finalUrl)`
    lastDeleted,  \* App state `lastDeleted`: <<>> or <<[link, index]>>
    lastMerged,   \* App state `lastMerged`: <<>> or <<removed>>
    nextId,       \* ids handed out so far by generateId
    clock,        \* Date.now()
    items,        \* argument of a mergeDuplicates call
    pass1,        \* <<>> or <<result of mergeDuplicates(items)>>
    pass2,        \* <<>> or <<result of mergeDuplicates(pass1.merged)>>
    shape,        \* the parts rawUrl is written from
    rawUrl,       \* argument of a getDedupKey call
    dedupKey,     \* its result
    prevRaw,      \* argument of the getDedupKey call before it
    prevKey,      \* result of the getDedupKey call before it
    edit,         \* how rawUrl was obtained from prevRaw
    source,       \* the JSON entries last read by a load or an import
    normalized,   \* source.map(normalizeImportedLink): <<>> for null, or <<link>>
    argPageUrl,   \* pickBestImage: argument pageUrl
    argCandidates,    \* pickBestImage: argument candidates
    argAllowExternal, \* pickBestImage: opts.allowExternalHosts
    picked,       \* <<>> before pickBestImage returns, then <<value returned>>
    targetUrl,    \* fetchMetadata: targetUrl
    pc,           \* fetchMetadata: the place the call has reached
    requests,     \* the proxies fetched so far, in the order of the fetches
    responses,    \* the responses received so far, in the order of the fetches
    html,         \* fetchMetadata: html
    isMarkdown,   \* fetchMetadata: isMarkdown
    title,        \* fetchMetadata: title
    image,        \* fetchMetadata: image, <<>> for undefined, or <<string>>
    fetchResult,  \* <<>> before fetchMetadata returns, then <<value returned>>
    argUrl,       \* validateUrl: argument url
    validation,   \* <<>> before validateUrl returns, then <<value returned>>
    preview,      \* App state `preview`: <<>> for null, or <<metadata>>
    previewUrl,   \* App state `previewUrl`: <<>> for null, or <<url>>
    isPreviewLoading, \* App state `isPreviewLoading`
    previewError, \* App state `previewError`: "" for null
    timer,        \* the timeout of the preview effect: <<>> or <<finalUrl>>
    previewCalls  \* the urls of the fetchMetadata calls the timeouts await

appVars == <<links, inputValue, error, isLoading, pendingAdd, lastDeleted,
             lastMerged, nextId, clock>>
mergeVars == <<items, pass1, pass2>>
keyVars == <<shape, rawUrl, dedupKey, prevRaw, prevKey, edit>>
fieldVars == <<source, normalized>>
pickVars == <<argPageUrl, argCandidates, argAllowExternal, picked>>
fetchVars == <<targetUrl, pc, requests, responses, html, isMarkdown, title, image,
              fetchResult>>
validateVars == <<argUrl, validation>>
previewVars == <<preview, previewUrl, isPreviewLoading, previewError, timer, previewCalls>>
metaVars == <<fieldVars, pickVars, fetchVars, validateVars, previewVars>>
vars == <<appVars, mergeVars, keyVars, metaVars>>

\* values of the variables of src/services/metadataService.ts and of the
\* field checks in a specification that does not use them
IdleField ==
    /\ source = <<>>
    /\ normalized = <<>>

IdlePick ==
    /\ argPageUrl = <<>>
    /\ argCandidates = <<>>
    /\ argAllowExternal = FALSE
    /\ picked = <<>>

IdleFetch ==
    /\ targetUrl = <<>>
    /\ pc = "idle"
    /\ requests = <<>>
    /\ responses = <<>>
    /\ html = <<>>
    /\ isMarkdown = FALSE
    /\ title = <<>>
    /\ image = <<>>
    /\ fetchResult = <<>>

IdleValidate ==
    /\ argUrl = <<>>
    /\ validation = <<>>

IdlePreview ==
    /\ preview = <<>>
    /\ previewUrl = <<>>
    /\ isPreviewLoading = FALSE
    /\ previewError = ""
    /\ timer = <<>>
    /\ previewCalls = <<>>

IdleMeta == IdleField /\ IdlePick /\ IdleFetch /\ IdleValidate /\ IdlePreview

(***************************************************************************)
(* Strings                                                                 *)
(***************************************************************************)
UpperLetters ==
    <<"A","B","C","D","E","F","G","H","I","J","K","L","M",
      "N","O","P","Q","R","S","T","U","V","W","X","Y","Z">>
LowerLetters ==
    <<"a","b","c","d","e","f","g","h","i","j","k","l","m",
      "n","o","p","q","r","s","t","u","v","w","x","y","z">>
Digits == <<"0","1","2","3","4","5","6","7","8","9">>

Range(s) == {s[i] : i \in 1..Len(s)}
UpperSet == Range(UpperLetters)
LowerSet == Range(LowerLetters)
DigitSet == Range(Digits)
IsUpper(c) == c \in UpperSet
IsLower(c) == c \in LowerSet
IsAlpha(c) == IsUpper(c) \/ IsLower(c)
IsDigit(c) == c \in DigitSet

LowerOf == [c \in UpperSet |-> LowerLetters[CHOOSE i \in 1..26 : UpperLetters[i] = c]]
UpperOf == [c \in LowerSet |-> UpperLetters[CHOOSE i \in 1..26 : LowerLetters[i] = c]]
DigitValueOf == [c \in DigitSet |-> (CHOOSE i \in 1..10 : Digits[i] = c) - 1]
LowerChar(c) == IF IsUpper(c) THEN LowerOf[c] ELSE c
UpperChar(c) == IF IsLower(c) THEN UpperOf[c] ELSE c

\* String.prototype.toLowerCase / toUpperCase
toLowerCase(s) == [i \in 1..Len(s) |-> LowerChar(s[i])]
toUpperCase(s) == [i \in 1..Len(s) |-> UpperChar(s[i])]

\* first / last index from i on of a character of s in set cs, 0 when none
RECURSIVE FirstFrom(_, _, _)
FirstFrom(s, cs, i) ==
    IF i > Len(s) THEN 0 ELSE IF s[i] \in cs THEN i ELSE FirstFrom(s, cs, i + 1)
RECURSIVE LastFrom(_, _, _)
LastFrom(s, cs, i) ==
    IF i < 1 THEN 0 ELSE IF s[i] \in cs THEN i ELSE LastFrom(s, cs, i - 1)
RECURSIVE FirstNotFrom(_, _, _)
FirstNotFrom(s, cs, i) ==
    IF i > Len(s) THEN 0 ELSE IF s[i] \notin cs THEN i ELSE FirstNotFrom(s, cs, i + 1)
RECURSIVE LastNotFrom(_, _, _)
LastNotFrom(s, cs, i) ==
    IF i < 1 THEN 0 ELSE IF s[i] \notin cs THEN i ELSE LastNotFrom(s, cs, i - 1)

FirstOf(s, cs) == FirstFrom(s, cs, 1)
LastOf(s, cs) == LastFrom(s, cs, Len(s))
FirstNotOf(s, cs) == FirstNotFrom(s, cs, 1)
LastNotOf(s, cs) == LastNotFrom(s, cs, Len(s))

\* String.prototype.trim
Whitespace == {" ", "\t", "\n"}
trim(s) ==
    LET lo == FirstNotOf(s, Whitespace)
    IN IF lo = 0 THEN <<>> ELSE SubSeq(s, lo, LastNotOf(s, Whitespace))

\* String.prototype.startsWith / includes
startsWith(s, p) == Len(s) >= Len(p) /\ SubSeq(s, 1, Len(p)) = p
includes(s, p) ==
    \E i \in 1..(Len(s) - Len(p) + 1) : SubSeq(s, i, i + Len(p) - 1) = p

From(s, i) == SubSeq(s, i, Len(s))
Upto(s, i) == SubSeq(s, 1, i)

\* String.prototype.split on a set of one-character separators
RECURSIVE SplitOn(_, _)
SplitOn(s, cs) ==
    LET i == FirstOf(s, cs)
    IN IF i = 0 THEN <<s>> ELSE <<Upto(s, i - 1)>> \o SplitOn(From(s, i + 1), cs)

\* Array.prototype.join with a one-character separator
RECURSIVE Join(_, _)
Join(parts, sep) ==
    IF parts = <<>> THEN <<>>
    ELSE IF Len(parts) = 1 THEN parts[1]
    ELSE parts[1] \o sep \o Join(Tail(parts), sep)

RECURSIVE Flatten(_)
Flatten(parts) ==
    IF parts = <<>> THEN <<>> ELSE parts[1] \o Flatten(Tail(parts))

(***************************************************************************)
(* new URL(input): the WHATWG URL parser, without a base URL, for inputs   *)
(* that start with a scheme followed by "//" (every caller in App.tsx      *)
(* passes its input through ensureHttpUrl or an equivalent test first).    *)
(* Hosts are domains written in ASCII letters, path segments, parameters   *)
(* and fragments hold no "%" escapes: the parser's percent-decoding, IDNA  *)
(* and IPv4/IPv6 host rules are outside the inputs the model draws.        *)
(* A parsed URL is a record                                                *)
(*   ok, scheme, user, host, port, path, hasQuery, query, hasFragment,     *)
(*   fragment                                                              *)
(* where path is the list of path segments, port is <<>> or <<n>>.         *)
(***************************************************************************)
SpecialSchemes ==
    { <<"h","t","t","p">>, <<"h","t","t","p","s">>, <<"f","t","p">>,
      <<"w","s">>, <<"w","s","s">> }
IsSpecial(scheme) == scheme \in SpecialSchemes

DefaultPort(scheme) ==
    IF scheme = <<"h","t","t","p">> \/ scheme = <<"w","s">> THEN <<80>>
    ELSE IF scheme = <<"h","t","t","p","s">> \/ scheme = <<"w","s","s">> THEN <<443>>
    ELSE IF scheme = <<"f","t","p">> THEN <<21>>
    ELSE <<>>

MaxPort == 2^16 - 1

\* forbidden host code points among the characters the model uses
ForbiddenHostChars == {" ", "#", "/", ":", "?", "@", "\\", "<", ">", "[", "]", "^", "|"}

Failure ==
    [ok |-> FALSE, scheme |-> <<>>, user |-> <<>>, host |-> <<>>, port |-> <<>>,
     path |-> <<>>, hasQuery |-> FALSE, query |-> <<>>,
     hasFragment |-> FALSE, fragment |-> <<>>]

\* the parser strips leading and trailing C0 control or space, and removes
\* every ASCII tab or newline
StripForParse(s) ==
    LET noTabs == SelectSeq(s, LAMBDA c : c \notin {"\t", "\n"})
        lo == FirstNotOf(noTabs, {" "})
    IN IF lo = 0 THEN <<>> ELSE SubSeq(noTabs, lo, LastNotOf(noTabs, {" "}))

IsSchemeString(s) ==
    /\ Len(s) >= 1
    /\ IsAlpha(s[1])
    /\ \A i \in 1..Len(s) : IsAlpha(s[i]) \/ IsDigit(s[i]) \/ s[i] \in {"+", "-", "."}

\* value of a string of digits, capped above MaxPort
RECURSIVE DigitsValue(_, _)
DigitsValue(s, acc) ==
    IF s = <<>> THEN acc
    ELSE IF acc > MaxPort THEN acc
    ELSE DigitsValue(Tail(s), acc * 10 + DigitValueOf[s[1]])

RECURSIVE NumberToString(_)
NumberToString(n) ==
    IF n < 10 THEN <<Digits[n + 1]>>
    ELSE NumberToString(n \div 10) \o <<Digits[(n % 10) + 1]>>

\* the percent-encoding the parser applies to a space in path, query or fragment
EncodeSpaces(s) ==
    Flatten([i \in 1..Len(s) |-> IF s[i] = " " THEN <<"%","2","0">> ELSE <<s[i]>>])

\* path state: "." and ".." segments are resolved while parsing
RECURSIVE ResolveSegments(_, _)
ResolveSegments(segs, acc) ==
    IF segs = <<>> THEN acc
    ELSE LET seg == segs[1]
             last == Len(segs) = 1
         IN IF seg = <<".", ".">>
            THEN LET popped == IF acc = <<>> THEN acc ELSE Upto(acc, Len(acc) - 1)
                 IN ResolveSegments(Tail(segs), IF last THEN Append(popped, <<>>) ELSE popped)
            ELSE IF seg = <<".">>
            THEN ResolveSegments(Tail(segs), IF last THEN Append(acc, <<>>) ELSE acc)
            ELSE ResolveSegments(Tail(segs), Append(acc, EncodeSpaces(seg)))

\* path start state and path state on the text of a path
ParsePath(text, special) ==
    LET seps == IF special THEN {"/", "\\"} ELSE {"/"}
    IN IF text = <<>>
       THEN IF special THEN << <<>> >> ELSE <<>>
       ELSE LET body == IF text[1] \in seps THEN Tail(text) ELSE text
            IN ResolveSegments(SplitOn(body, seps), <<>>)

\* the "/" and "\" a special scheme skips before its authority
LeadingSlashes(s) ==
    LET stop == FirstNotOf(s, {"/", "\\"})
    IN IF stop = 0 THEN Len(s) ELSE stop - 1

\* host state and port state: the host of a special scheme is not empty,
\* nor is a host that comes with credentials or a port
ParseHostPort(scheme, hasCredentialsOrPort, user, host, portText) ==
    IF \/ IsSpecial(scheme) /\ host = <<>>
       \/ hasCredentialsOrPort /\ host = <<>>
       \/ \E i \in 1..Len(host) : host[i] \in ForbiddenHostChars
       \/ \E i \in 1..Len(portText) : ~IsDigit(portText[i])
       \/ DigitsValue(portText, 0) > MaxPort
    THEN Failure
    ELSE [Failure EXCEPT
            !.ok = TRUE,
            !.scheme = scheme,
            !.user = IF user \in {<<>>, <<":">>} THEN <<>> ELSE user,
            !.host = IF IsSpecial(scheme) THEN toLowerCase(host) ELSE host,
            !.port = IF portText = <<>> THEN <<>>
                     ELSE IF <<DigitsValue(portText, 0)>> = DefaultPort(scheme) THEN <<>>
                     ELSE <<DigitsValue(portText, 0)>>]

\* authority state: the credentials end at the last "@", the host at the
\* first ":" after them
ParseAuthority(scheme, auth) ==
    LET at == LastOf(auth, {"@"})
        hostport == From(auth, at + 1)
        colon == FirstOf(hostport, {":"})
    IN ParseHostPort(scheme, at # 0 \/ colon # 0,
                     IF at = 0 THEN <<>> ELSE Upto(auth, at - 1),
                     IF colon = 0 THEN hostport ELSE Upto(hostport, colon - 1),
                     IF colon = 0 THEN <<>> ELSE From(hostport, colon + 1))

\* path state, query state and fragment state on what follows the authority
ParsePathQueryFragment(a, special, tail) ==
    LET hash == FirstOf(tail, {"#"})
        beforeHash == IF hash = 0 THEN tail ELSE Upto(tail, hash - 1)
        qmark == FirstOf(beforeHash, {"?"})
    IN IF ~a.ok THEN Failure
       ELSE [a EXCEPT
               !.path = ParsePath(IF qmark = 0 THEN beforeHash
                                  ELSE Upto(beforeHash, qmark - 1), special),
               !.hasQuery = qmark # 0,
               !.query = IF qmark = 0 THEN <<>>
                         ELSE EncodeSpaces(From(beforeHash, qmark + 1)),
               !.hasFragment = hash # 0,
               !.fragment = IF hash = 0 THEN <<>> ELSE EncodeSpaces(From(tail, hash + 1))]

\* special authority (ignore) slashes state skips every "/" and "\"; a
\* non-special scheme takes an authority after exactly "//".  The authority
\* ends at the first "/", "?" or "#" ("\" too for a special scheme).
ParseAfterScheme(scheme, afterScheme) ==
    LET special == IsSpecial(scheme)
        lead == IF special THEN LeadingSlashes(afterScheme)
                ELSE IF startsWith(afterScheme, <<"/", "/">>) THEN 2 ELSE 0
        rest == From(afterScheme, lead + 1)
        authEnd == FirstOf(rest, IF special THEN {"/", "\\", "?", "#"} ELSE {"/", "?", "#"})
    IN ParsePathQueryFragment(
           ParseAuthority(scheme, IF ~(special \/ lead = 2) THEN <<>>
                                  ELSE IF authEnd = 0 THEN rest
                                  ELSE Upto(rest, authEnd - 1)),
           special,
           IF ~(special \/ lead = 2) THEN rest
           ELSE IF authEnd = 0 THEN <<>> ELSE From(rest, authEnd))

\* scheme start state and scheme state
ParseScheme(s) ==
    LET colon == FirstOf(s, {":"})
    IN IF colon <= 1 \/ ~IsSchemeString(Upto(s, colon - 1)) THEN Failure
       ELSE ParseAfterScheme(toLowerCase(Upto(s, colon - 1)), From(s, colon + 1))

ParseURL(input) == ParseScheme(StripForParse(input))

\* URL.pathname, URL.search, URL.hostname getters
Pathname(u) == Flatten([i \in 1..Len(u.path) |-> <<"/">> \o u.path[i]])
Search(u) == IF u.hasQuery /\ u.query # <<>> THEN <<"?">> \o u.query ELSE <<>>
\* URL.host getter: the host with the port
HostAndPort(u) == u.host \o (IF u.port = <<>> THEN <<>> ELSE <<":">> \o NumberToString(u.port[1]))

\* URL.hostname getter
Hostname(u) == u.host

\* URL.href / URL.toString(): the URL serializer
Href(u) ==
    u.scheme \o <<":", "/", "/">>
    \o (IF u.user = <<>> THEN <<>> ELSE u.user \o <<"@">>)
    \o u.host
    \o (IF u.port = <<>> THEN <<>> ELSE <<":">> \o NumberToString(u.port[1]))
    \o Pathname(u)
    \o (IF u.hasQuery THEN <<"?">> \o u.query ELSE <<>>)
    \o (IF u.hasFragment THEN <<"#">> \o u.fragment ELSE <<>>)

\* URL.hash setter with the empty string: the fragment becomes null
ClearHash(u) == [u EXCEPT !.hasFragment = FALSE, !.fragment = <<>>]

\* URL.pathname setter: the path is emptied and the value parsed from the
\* path start state ("?" and "#" cannot occur in the values the code sets)
SetPathname(u, value) == [u EXCEPT !.path = ParsePath(value, IsSpecial(u.scheme))]

(***************************************************************************)
(* URLSearchParams: the application/x-www-form-urlencoded parser and       *)
(* serializer.  A parameter is a record [name, value].                     *)
(***************************************************************************)
\* percent-decoding of the escapes of the characters the model uses
Escapes ==
    { <<"2","0", " ">>, <<"3","D", "=">>, <<"2","6", "&">>, <<"2","B", "+">>,
      <<"2","F", "/">>, <<"3","A", ":">>, <<"3","F", "?">>, <<"4","0", "@">>,
      <<"2","5", "%">> }

RECURSIVE PercentDecode(_)
PercentDecode(t) ==
    IF t = <<>> THEN <<>>
    ELSE IF t[1] = "%" /\ Len(t) >= 3 /\ \E e \in Escapes : e[1] = t[2] /\ e[2] = t[3]
    THEN <<(CHOOSE e \in Escapes : e[1] = t[2] /\ e[2] = t[3])[3]>> \o PercentDecode(From(t, 4))
    ELSE <<t[1]>> \o PercentDecode(Tail(t))

\* parser: split on "&", skip empty pieces, split each at its first "=",
\* "+" is a space, then percent-decode
ParseParam(piece) ==
    LET eq == FirstOf(piece, {"="})
        plus(t) == [i \in 1..Len(t) |-> IF t[i] = "+" THEN " " ELSE t[i]]
    IN IF eq = 0 THEN [name |-> PercentDecode(plus(piece)), value |-> <<>>]
       ELSE [name |-> PercentDecode(plus(Upto(piece, eq - 1))),
             value |-> PercentDecode(plus(From(piece, eq + 1)))]

ParseQuery(query) ==
    LET pieces == SelectSeq(SplitOn(query, {"&"}), LAMBDA p : p # <<>>)
    IN [i \in 1..Len(pieces) |-> ParseParam(pieces[i])]

\* serializer: letters, digits and * - . _ are kept, a space is "+", any
\* other byte is percent-encoded
UrlencodedByte(c) ==
    IF IsAlpha(c) \/ IsDigit(c) \/ c \in {"*", "-", ".", "_"} THEN <<c>>
    ELSE IF c = " " THEN <<"+">>
    ELSE IF c = "=" THEN <<"%","3","D">>
    ELSE IF c = "&" THEN <<"%","2","6">>
    ELSE IF c = "+" THEN <<"%","2","B">>
    ELSE IF c = "/" THEN <<"%","2","F">>
    ELSE IF c = ":" THEN <<"%","3","A">>
    ELSE IF c = "?" THEN <<"%","3","F">>
    ELSE IF c = "@" THEN <<"%","4","0">>
    ELSE IF c = "%" THEN <<"%","2","5">>
    ELSE <<c>>

UrlencodedString(t) == Flatten([i \in 1..Len(t) |-> UrlencodedByte(t[i])])

SerializeParams(params) ==
    Join([i \in 1..Len(params) |->
            UrlencodedString(params[i].name) \o <<"=">> \o UrlencodedString(params[i].value)],
         <<"&">>)

\* URLSearchParams.delete(name), for each name of a list in turn
RECURSIVE DeleteParams(_, _)
DeleteParams(list, names) ==
    IF names = <<>> THEN list
    ELSE DeleteParams(SelectSeq(list, LAMBDA p : p.name # names[1]), Tail(names))

\* the update steps a delete runs: the URL's query becomes the serialization
\* of the list, null when that is empty
UpdateQuery(u, list) ==
    LET serialized == SerializeParams(list)
    IN [u EXCEPT !.hasQuery = serialized # <<>>, !.query = serialized]

(***************************************************************************)
(* src/App.tsx: ensureHttpUrl and getDedupKey                              *)
(***************************************************************************)
\* /^[a-zA-Z]+:\/\//.test(s)
HasSchemePrefix(s) ==
    LET colon == FirstOf(s, {":"})
    IN /\ colon >= 2
       /\ \A i \in 1..(colon - 1) : IsAlpha(s[i])
       /\ startsWith(From(s, colon + 1), <<"/", "/">>)

HttpsPrefix == <<"h","t","t","p","s",":","/","/">>

ensureHttpUrl(candidate) ==
    LET Ensure(trimmed) ==
            IF trimmed = <<>> THEN trimmed
            ELSE IF HasSchemePrefix(trimmed) THEN trimmed
            ELSE HttpsPrefix \o trimmed
    IN Ensure(trim(candidate))

\* the test of lines 55-61 on a parameter name
IsTrackingParam(k) ==
    LET Test(key) ==
            \/ startsWith(key, <<"u","t","m","_">>)
            \/ key = <<"g","c","l","i","d">>
            \/ key = <<"f","b","c","l","i","d">>
            \/ key = <<"i","g","s","h","i","d">>
            \/ key = <<"m","c","_","c","i","d">>
            \/ key = <<"m","c","_","e","i","d">>
    IN Test(toLowerCase(k))

\* u.pathname.replace(/\/$/, "") || "/": one slash only
StripOneTrailingSlash(p) ==
    IF p # <<>> /\ p[Len(p)] = "/"
    THEN (IF Len(p) = 1 THEN <<"/">> ELSE Upto(p, Len(p) - 1))
    ELSE IF p = <<>> THEN <<"/">> ELSE p

\* u.pathname.replace(/\/+$/, "") || "/"
StripTrailingSlashes(p) ==
    LET keep == LastNotOf(p, {"/"})
    IN IF keep = 0 THEN <<"/">> ELSE Upto(p, keep)

UrlAX == HttpsPrefix \o <<"a",".","c","o","/","x">>
UrlAXSlash == HttpsPrefix \o <<"a",".","c","o","/","x","/">>
UrlB == HttpsPrefix \o <<"w","w","w",".","b",".","c","o","/">>
MergeUrls == {UrlAX, UrlAXSlash, UrlB}

UrlAXFrag == HttpsPrefix \o <<"a",".","c","o","/","x","#","f">>

\* the URL of UrlAX with the scheme http, with a port, with user-info
UrlAXHttp == <<"h","t","t","p",":","/","/","a",".","c","o","/","x">>
UrlAXPort == <<"h","t","t","p","s",":","/","/","a",".","c","o",":","8","0","8","0","/","x">>
UrlAXUser == <<"h","t","t","p","s",":","/","/","u",":","p","@","a",".","c","o","/","x">>

\* the URLs of the records the specifications draw
KnownUrls == MergeUrls \cup {UrlAXFrag, UrlAXHttp, UrlAXPort, UrlAXUser}

\* a fallback that forgets to trim
fallbackUntrimmed(raw) == toLowerCase(raw)
\* line 75: the catch branch
fallbackKey(raw) == toLowerCase(trim(raw))

getDedupKey(raw) ==
    LET \* line 71
        Key(u) == toLowerCase(Hostname(u)) \o Pathname(u) \o Search(u)
        \* line 68
        PathStripped(u) == Key(SetPathname(u, StripTrailingSlashes(Pathname(u))))
        \* line 66
        Deleted(u, params, toDelete) ==
            PathStripped(IF toDelete = <<>> THEN u
                         ELSE UpdateQuery(u, DeleteParams(params, toDelete)))
        Names(tracking) == [i \in 1..Len(tracking) |-> tracking[i].name]
        \* lines 54-65
        Collected(u, params) ==
            Deleted(u, params,
                    Names(SelectSeq(params, LAMBDA p : IsTrackingParam(p.name))))
        \* line 52, and the catch branch of line 75
        Parsed(u) ==
            IF ~u.ok THEN fallbackKey(raw)
            ELSE Collected(ClearHash(u), ParseQuery(u.query))
    IN Parsed(ParseURL(ensureHttpUrl(raw)))

\* getDedupKey on the URLs of the records the specifications draw
DedupKeyOf == [u \in KnownUrls |-> getDedupKey(u)]

(***************************************************************************)
(* src/App.tsx: mergeTwoLinks and mergeDuplicates.  A LinkItem is a record *)
(*   id, url, title, image, domain, timestamp, tags, favorite, archived,   *)
(*   notes, rating, priority, openCount, lastOpenedAt, checkStatus,        *)
(*   lastCheckedAt                                                         *)
(***************************************************************************)
\* x || 0 on an optional number
OrZero(x) == IF x = <<>> THEN 0 ELSE x[1]
\* n || undefined
OrUndefined(n) == IF n = 0 THEN <<>> ELSE <<n>>
Max(m, n) == IF m >= n THEN m ELSE n

\* Array.from(new Set(list)): first occurrences, in order
RECURSIVE Unique(_)
Unique(list) ==
    IF list = <<>> THEN <<>>
    ELSE LET front == Unique(Upto(list, Len(list) - 1))
             last == list[Len(list)]
         IN IF last \in Range(front) THEN front ELSE Append(front, last)

NotesSeparator == <<"\n", "\n", "-", "-", "-", "\n", "\n">>

statusRank(st) == IF st = "broken" THEN 2 ELSE IF st = "ok" THEN 1 ELSE 0
prioOrder(p) == IF p = "low" THEN 0 ELSE IF p = "medium" THEN 1 ELSE 2

\* a mergeTwoLinks that keeps only the destination's tags
mergedTagsOfDestination(a, b) == a.tags
\* lines 80-82
mergedTags(a, b) == Unique(a.tags \o b.tags)

\* a mergeTwoLinks that keeps a record archived when either was
archivedIfEither(a, b) == a.archived \/ b.archived
\* line 124
archivedIfBoth(a, b) == a.archived /\ b.archived

mergeTwoLinks(a, b) ==
    LET \* lines 84-89
        MergedNotes(aNotes, bNotes) ==
            IF aNotes # <<>> /\ bNotes # <<>> /\ aNotes # bNotes
            THEN aNotes \o NotesSeparator \o bNotes
            ELSE IF aNotes # <<>> THEN aNotes ELSE bNotes
    IN [a EXCEPT
          !.title = IF Len(trim(b.title)) > Len(trim(a.title)) THEN b.title ELSE a.title,
          !.image = IF a.image # <<>> THEN a.image ELSE b.image,
          !.tags = mergedTags(a, b),
          !.notes = MergedNotes(trim(a.notes), trim(b.notes)),
          !.favorite = a.favorite \/ b.favorite,
          !.archived = archivedIfBoth(a, b),
          !.openCount = a.openCount + b.openCount,
          !.lastOpenedAt = OrUndefined(Max(OrZero(a.lastOpenedAt), OrZero(b.lastOpenedAt))),
          !.checkStatus = IF statusRank(a.checkStatus) >= statusRank(b.checkStatus)
                          THEN a.checkStatus ELSE b.checkStatus,
          !.lastCheckedAt = OrUndefined(Max(OrZero(a.lastCheckedAt), OrZero(b.lastCheckedAt))),
          !.rating = Max(a.rating, b.rating),
          !.priority = IF prioOrder(a.priority) >= prioOrder(b.priority)
                       THEN a.priority ELSE b.priority]

\* a mergeDuplicates that does not sort
Unsorted(list) == list

\* [...items].sort((x, y) => y.timestamp - x.timestamp): a stable sort,
\* newest first
RECURSIVE SortNewestFirst(_)
SortNewestFirst(list) ==
    IF list = <<>> THEN <<>>
    ELSE LET front == SortNewestFirst(Upto(list, Len(list) - 1))
             last == list[Len(list)]
             \* the last element goes behind every element not older than it
             ahead == {i \in 1..Len(front) : front[i].timestamp >= last.timestamp}
             at == IF ahead = {} THEN 0 ELSE CHOOSE i \in ahead : \A j \in ahead : j <= i
         IN Upto(front, at) \o <<last>> \o From(front, at + 1)

\* line 142
keyOfLink(link) == DedupKeyOf[link.url]

\* a loop that does not count
removedUnchanged(removed) == removed
\* line 148
removedPlusOne(removed) == removed + 1

\* a lookup that sees only the entry added last
byKeyGetLast(byKey, key) ==
    IF byKey # <<>> /\ byKey[Len(byKey)].key = key THEN Len(byKey) ELSE 0
\* line 143, byKey.get(key): the place of the key in the Map, 0 for undefined
byKeyGet(byKey, key) ==
    IF \E i \in 1..Len(byKey) : byKey[i].key = key
    THEN CHOOSE i \in 1..Len(byKey) : byKey[i].key = key ELSE 0

\* the loop of lines 141-150; byKey is the Map, a list of [key, link] in
\* insertion order
RECURSIVE MergeLoop(_, _, _)
MergeLoop(sorted, byKey, removed) ==
    IF sorted = <<>> THEN [merged |-> [i \in 1..Len(byKey) |-> byKey[i].link],
                           removed |-> removed]
    ELSE LET \* lines 143-149; at is 0 when byKey.get(key) is undefined
             Put(link, key, at) ==
                 IF at = 0
                 THEN MergeLoop(Tail(sorted), Append(byKey, [key |-> key, link |-> link]),
                                removed)
                 ELSE MergeLoop(Tail(sorted),
                                [byKey EXCEPT ![at].link = mergeTwoLinks(byKey[at].link, link)],
                                removedPlusOne(removed))
             Get(link, key) == Put(link, key, byKeyGet(byKey, key))
         IN Get(sorted[1], keyOfLink(sorted[1]))

mergeDuplicates(list) == MergeLoop(SortNewestFirst(list), <<>>, 0)

(***************************************************************************)
(* src/services/metadataService.ts: getDomain                              *)
(***************************************************************************)
\* String.prototype.replace(pattern, "") with a string pattern: the first
\* occurrence only
RemoveFirst(s, p) ==
    LET hit == {i \in 1..(Len(s) - Len(p) + 1) : SubSeq(s, i, i + Len(p) - 1) = p}
    IN IF hit = {} THEN s
       ELSE LET at == CHOOSE i \in hit : \A j \in hit : i <= j
            IN Upto(s, at - 1) \o From(s, at + Len(p))

getDomain(url) ==
    LET Label(parts) ==
            toUpperCase(IF Len(parts) > 1 THEN parts[Len(parts) - 1] ELSE parts[1])
        Parsed(u) ==
            IF ~u.ok THEN <<"L","I","N","K">>
            ELSE Label(SplitOn(RemoveFirst(Hostname(u), <<"w","w","w",".">>), {"."}))
    IN Parsed(ParseURL(IF startsWith(url, <<"h","t","t","p">>) THEN url
                       ELSE HttpsPrefix \o url))

\* getDomain on the URLs of the records the specifications draw
DomainOf == [u \in KnownUrls |-> getDomain(u)]

(***************************************************************************)
(* src/App.tsx: parseTagsInput, validateUrl, normalizeImportedLink         *)
(***************************************************************************)
\* parseTagsInput without its filter and its lower-casing
parseTagsUnfiltered(value) == SplitOn(value, {" ", ","})

\* value.split(/[ ,]+/).map(t => t.trim().toLowerCase()).filter(t => t.length > 0)
parseTagsInput(value) ==
    LET Tags(pieces) == [i \in 1..Len(pieces) |-> toLowerCase(trim(pieces[i]))]
    IN SelectSeq(Tags(SplitOn(value, {" ", ","})), LAMBDA t : Len(t) > 0)

\* the length of the match of /^htt[p]?s?:/ at the start of s, 0 for no match
HttColon(s) ==
    IF ~startsWith(s, <<"h","t","t">>) THEN 0
    ELSE LET Colon(at) == IF Len(s) >= at /\ s[at] = ":" THEN at ELSE 0
             AfterP(p) == Colon(IF Len(s) >= p /\ s[p] = "s" THEN p + 1 ELSE p)
         IN AfterP(IF Len(s) >= 4 /\ s[4] = "p" THEN 5 ELSE 4)

\* normalized.replace(/^htt[p]?s?:\/([^\/])/, "https://$1")
FixSingleSlash(s) ==
    LET Fix(c) ==
            IF c # 0 /\ Len(s) >= c + 2 /\ s[c + 1] = "/" /\ s[c + 2] # "/"
            THEN HttpsPrefix \o From(s, c + 2)
            ELSE s
    IN Fix(HttColon(s))

\* normalized.replace(/^htt[p]?s?:\/\/+/, "https://")
FixManySlashes(s) ==
    LET Rest(rest) == HttpsPrefix \o (IF rest = 0 THEN <<>> ELSE From(s, rest))
        Fix(c) ==
            IF c # 0 /\ Len(s) >= c + 2 /\ s[c + 1] = "/" /\ s[c + 2] = "/"
            THEN Rest(FirstNotFrom(s, {"/"}, c + 1))
            ELSE s
    IN Fix(HttColon(s))

\* the messages of validateUrl and of the handlers, "" for null
ErrEmpty == "Por favor, ingresa una direccion web."
ErrSpaces == "La URL no puede contener espacios en blanco."
ErrNoDot == "Parece que falta la extension del dominio (ej: .com, .es)."
ErrDomain == "El nombre de dominio esta incompleto."
ErrStructure == "La estructura del enlace es invalida."
ErrDuplicate == "Este enlace ya esta en tu coleccion."
ErrNotAList == "El archivo no contiene una lista valida."
ErrNoValidLinks == "No encontramos enlaces validos para importar."
ErrBadJson == "No pudimos leer ese JSON."

\* validateUrl without the test of line 584
validateUrlAnyHostname(url) ==
    LET Invalid(message) == [error |-> message, normalized |-> <<>>]
        Parsed(urlObj) ==
            IF ~urlObj.ok THEN Invalid(ErrStructure)
            ELSE [error |-> "", normalized |-> Href(urlObj)]
        Trimmed(trimmed) ==
            IF trimmed = <<>> THEN Invalid(ErrEmpty)
            ELSE IF \E i \in 1..Len(trimmed) : trimmed[i] \in Whitespace
            THEN Invalid(ErrSpaces)
            ELSE IF "." \notin Range(trimmed) THEN Invalid(ErrNoDot)
            ELSE Parsed(ParseURL(FixManySlashes(FixSingleSlash(
                     IF HasSchemePrefix(trimmed) THEN trimmed ELSE HttpsPrefix \o trimmed))))
    IN Trimmed(trim(url))

\* validateUrl: [error, normalized]
validateUrl(url) ==
    LET Invalid(message) == [error |-> message, normalized |-> <<>>]
        \* lines 577-589
        Parsed(urlObj) ==
            IF ~urlObj.ok THEN Invalid(ErrStructure)
            ELSE IF Len(Hostname(urlObj)) < 3 \/ "." \notin Range(Hostname(urlObj))
            THEN Invalid(ErrDomain)
            ELSE [error |-> "", normalized |-> Href(urlObj)]
        \* lines 559-575
        Trimmed(trimmed) ==
            IF trimmed = <<>> THEN Invalid(ErrEmpty)
            ELSE IF \E i \in 1..Len(trimmed) : trimmed[i] \in Whitespace
            THEN Invalid(ErrSpaces)
            ELSE IF "." \notin Range(trimmed) THEN Invalid(ErrNoDot)
            ELSE Parsed(ParseURL(FixManySlashes(FixSingleSlash(
                     IF HasSchemePrefix(trimmed) THEN trimmed ELSE HttpsPrefix \o trimmed))))
    IN Trimmed(trim(url))

\* FALLBACK_IMAGE (lines 13-14) and the favicon marker of line 191, by name
FALLBACK_IMAGE == <<"F","A","L","L","B","A","C","K","_","I","M","A","G","E">>
FaviconMarker == <<"g","o","o","g","l","e",".","c","o","m","/","s","2","/",
                   "f","a","v","i","c","o","n","s">>
SavedLinkTitle == <<"E","n","l","a","c","e"," ","G","u","a","r","d","a","d","o">>
NewResourceTitle == <<"N","u","e","v","o"," ","R","e","c","u","r","s","o">>

(***************************************************************************)
(* A value read from JSON is [type, val] with type one of "string",        *)
(* "number", "boolean", "array", "object", "null"; the val of an object is *)
(* a function from its property names.  A missing property reads as        *)
(* undefined.  The val of the strings priority and checkStatus, which the  *)
(* code only compares with literals, is written as a TLA+ string.          *)
(***************************************************************************)
Undefined == [type |-> "undefined", val |-> <<>>]
Str(v) == [type |-> "string", val |-> v]
Num(n) == [type |-> "number", val |-> n]
Bool(b) == [type |-> "boolean", val |-> b]
Arr(list) == [type |-> "array", val |-> list]
Obj(props) == [type |-> "object", val |-> props]

Prop(raw, name) == IF name \in DOMAIN raw.val THEN raw.val[name] ELSE Undefined
IsStr(v) == v.type = "string"
IsNum(v) == v.type = "number"
IsBool(v) == v.type = "boolean"

\* normalizeImportedLink(raw): <<>> for null, else <<link>>; now is
\* Date.now() and freshId the value of generateId()
normalizeImportedLink(raw, now, freshId) ==
    LET Rating(ratingRaw) == IF ratingRaw \in 0..5 THEN ratingRaw ELSE 0
        Priority(priorityRaw) ==
            IF priorityRaw \in {"low", "medium", "high"} THEN priorityRaw ELSE "medium"
        CheckStatus(checkStatusRaw) ==
            IF checkStatusRaw \in {"ok", "broken", "unknown"} THEN checkStatusRaw
            ELSE "unknown"
        Image(imageCandidate) ==
            IF ~includes(imageCandidate, FaviconMarker) /\ imageCandidate # <<>>
            THEN imageCandidate ELSE FALLBACK_IMAGE
        TagsOfArray(strings) ==
            SelectSeq([i \in 1..Len(strings) |-> toLowerCase(trim(strings[i].val))],
                      LAMBDA t : t # <<>>)
        Tags(rawTags) ==
            IF rawTags.type = "array"
            THEN TagsOfArray(SelectSeq(rawTags.val, LAMBDA t : IsStr(t)))
            ELSE IF IsStr(rawTags) THEN parseTagsInput(rawTags.val)
            ELSE <<>>
        Title(rawTitle) ==
            IF IsStr(rawTitle) /\ Len(trim(rawTitle.val)) > 0
            THEN trim(rawTitle.val) ELSE SavedLinkTitle
        Link(url) ==
            << [id |-> IF IsStr(Prop(raw, "id")) /\ Len(trim(Prop(raw, "id").val)) > 0
                       THEN Prop(raw, "id").val ELSE freshId,
                url |-> url,
                title |-> Title(Prop(raw, "title")),
                image |-> Image(IF IsStr(Prop(raw, "image"))
                                THEN trim(Prop(raw, "image").val) ELSE <<>>),
                domain |-> getDomain(url),
                timestamp |-> IF IsNum(Prop(raw, "timestamp"))
                              THEN Prop(raw, "timestamp").val ELSE now,
                tags |-> Tags(Prop(raw, "tags")),
                favorite |-> IF IsBool(Prop(raw, "favorite")) THEN Prop(raw, "favorite").val
                             ELSE FALSE,
                archived |-> IF IsBool(Prop(raw, "archived")) THEN Prop(raw, "archived").val
                             ELSE FALSE,
                notes |-> IF IsStr(Prop(raw, "notes")) THEN Prop(raw, "notes").val ELSE <<>>,
                rating |-> Rating(IF IsNum(Prop(raw, "rating")) THEN Prop(raw, "rating").val
                                  ELSE 0),
                priority |-> Priority(IF IsStr(Prop(raw, "priority"))
                                      THEN Prop(raw, "priority").val ELSE "medium"),
                openCount |-> IF IsNum(Prop(raw, "openCount")) THEN Prop(raw, "openCount").val
                              ELSE 0,
                lastOpenedAt |-> IF IsNum(Prop(raw, "lastOpenedAt"))
                                 THEN <<Prop(raw, "lastOpenedAt").val>> ELSE <<>>,
                checkStatus |-> CheckStatus(IF IsStr(Prop(raw, "checkStatus"))
                                            THEN Prop(raw, "checkStatus").val
                                            ELSE "unknown"),
                lastCheckedAt |-> IF IsNum(Prop(raw, "lastCheckedAt"))
                                  THEN <<Prop(raw, "lastCheckedAt").val>> ELSE <<>>] >>
        Parsed(urlObj) == IF ~urlObj.ok THEN <<>> ELSE Link(Href(urlObj))
    IN \* an array, though an object, has no string property url
       IF raw.type # "object" THEN <<>>
       ELSE IF ~IsStr(Prop(raw, "url")) THEN <<>>
       ELSE IF Len(trim(Prop(raw, "url").val)) = 0 THEN <<>>
       ELSE Parsed(ParseURL(ensureHttpUrl(trim(Prop(raw, "url").val))))

(***************************************************************************)
(* src/App.tsx: the handlers of the App component that change `links`.     *)
(* tagInput is read by agregarEnlace only and is drawn there.  The preview *)
(* of lines 593-632 is the subject of SpecPreview; in Spec its timeout     *)
(* never fires: agregarEnlace runs with preview = null and awaits          *)
(* fetchMetadata, which catches the failure of its requests and resolves.  *)
(* A call of Date.now() that stamps a record returns `clock` and advances  *)
(* it.                                                                     *)
(***************************************************************************)
MaxLinks == 2
MaxClock == 2
MaxImport == 1

\* generateId(): the n-th id handed out; ids read from a file start with "r"
GeneratedId(n) == <<"g">> \o NumberToString(n)

\* what the user types into the URL box
InputAX == <<"a",".","c","o","/","x">>
InputSpace == <<"a"," ","b",".","c","o">>
AddInputs ==
    { InputAX,
      <<"a",".","c","o","/","x","/">>,
      <<" ","A",".","c","o","/","x"," ">>,
      InputSpace,
      <<"a","b">>,
      <<"a",".">>,
      <<"a",".","c","o",":","x">> }
TagInputs == {<<"A", ",", " ", "b">>}

\* what fetchMetadata resolves to: title and image, <<>> when absent
FetchResults == {[title |-> <<"T">>, image |-> <<>>]}

\* entries of an imported file
EntryUrlOnly == Obj([url |-> Str(InputAX)])
EntryFull ==
    Obj([id |-> Str(<<"r","1">>), url |-> Str(UrlAXSlash), title |-> Str(<<" ","T"," ">>),
         image |-> Str(FaviconMarker), timestamp |-> Num(1),
         tags |-> Arr(<<Str(<<" ","A">>), Num(3), Str(<<" ">>)>>),
         favorite |-> Str(<<"y">>), archived |-> Bool(TRUE), notes |-> Num(0),
         rating |-> Num(9), priority |-> Str("urgent"), openCount |-> Num(2),
         lastOpenedAt |-> Num(1), checkStatus |-> Str("ok"), lastCheckedAt |-> Str(<<"1">>)])
EntrySameId ==
    Obj([id |-> Str(<<"r","1">>),
         url |-> Str(<<"H","T","T","P","S",":","/","/","A",".","C","O","/","x","#","f">>),
         timestamp |-> Num(2), tags |-> Str(<<"A", ",", " ", "c">>), rating |-> Num(4),
         priority |-> Str("high")])
EntryNotObject == Num(7)
EntryUnparsable == Obj([url |-> Str(InputSpace)])
RawEntries == {EntryUrlOnly, EntryFull, EntrySameId, EntryNotObject, EntryUnparsable}

ImportFiles ==
    {[kind |-> "badjson", value |-> Undefined], [kind |-> "json", value |-> Obj(<<>>)]}
    \cup {[kind |-> "json", value |-> Arr(batch)] :
            batch \in UNION {[1..n -> RawEntries] : n \in 0..MaxImport}}

\* parsed.map(normalizeImportedLink).filter(Boolean), with the number of
\* ids generateId handed out
RECURSIVE NormalizeAll(_, _, _)
NormalizeAll(entries, now, used) ==
    IF entries = <<>> THEN [incoming |-> <<>>, used |-> used]
    ELSE LET Rest(one, rest) == [incoming |-> one \o rest.incoming, used |-> rest.used]
             One(one) ==
                 Rest(one, NormalizeAll(Tail(entries), now,
                                        IF one # <<>> /\ one[1].id = GeneratedId(used + 1)
                                        THEN used + 1 ELSE used))
         IN One(normalizeImportedLink(entries[1], now, GeneratedId(used + 1)))

\* links.some(...) that finds no record
HasNoUrl(list, url) == FALSE

\* links.some(l => l.url.toLowerCase() === url.toLowerCase())
HasUrl(list, url) == \E i \in 1..Len(list) : toLowerCase(list[i].url) = toLowerCase(url)

\* duplicatesCount (lines 403-414)
duplicatesCount(list) ==
    Len(list) - Cardinality({keyOfLink(list[i]) : i \in 1..Len(list)})

Init ==
    /\ links = <<>>
    /\ inputValue = <<>>
    /\ error = ""
    /\ isLoading = FALSE
    /\ pendingAdd = <<>>
    /\ lastDeleted = <<>>
    /\ lastMerged = <<>>
    /\ nextId = 0
    /\ clock = 1
    /\ items = <<>>
    /\ pass1 = <<>>
    /\ pass2 = <<>>
    /\ shape = <<>>
    /\ rawUrl = <<>>
    /\ dedupKey = <<>>
    /\ prevRaw = <<>>
    /\ prevKey = <<>>
    /\ edit = "none"
    /\ IdleMeta

\* onChange of the URL box (lines 1098-1101); the box is disabled while loading
SetInputValue ==
    /\ ~isLoading
    /\ \E text \in AddInputs : inputValue' = text
    /\ error' = ""
    /\ UNCHANGED <<links, isLoading, pendingAdd, lastDeleted, lastMerged, nextId, clock,
                   mergeVars, keyVars,
                   metaVars>>

\* lines 659-677: newLink
newLink(metadata, finalUrl, tags, id, now) ==
    [id |-> id,
     url |-> finalUrl,
     title |-> IF metadata.title # <<>> THEN metadata.title ELSE NewResourceTitle,
     image |-> IF metadata.image # <<>> THEN metadata.image ELSE FALLBACK_IMAGE,
     domain |-> DomainOf[finalUrl],
     timestamp |-> now,
     tags |-> tags,
     favorite |-> FALSE, archived |-> FALSE, notes |-> <<>>,
     openCount |-> 0, lastOpenedAt |-> <<>>, rating |-> 0,
     priority |-> "medium", checkStatus |-> "unknown",
     lastCheckedAt |-> <<>>]

\* agregarEnlace up to `await fetchMetadata(finalUrl)` (lines 634-654)
agregarEnlace ==
    /\ ~isLoading
    /\ LET Validated(v) ==
               IF v.error # ""
               THEN /\ error' = v.error
                    /\ UNCHANGED <<isLoading, pendingAdd>>
               ELSE IF HasUrl(links, v.normalized)
               THEN /\ error' = ErrDuplicate
                    /\ UNCHANGED <<isLoading, pendingAdd>>
               ELSE /\ Len(links) < MaxLinks
                    /\ clock <= MaxClock
                    /\ error' = ""
                    /\ isLoading' = TRUE
                    /\ \E tagInput \in TagInputs :
                          pendingAdd' = <<[url |-> v.normalized,
                                           tags |-> parseTagsInput(tagInput)]>>
       IN Validated(validateUrl(inputValue))
    /\ UNCHANGED <<links, inputValue, lastDeleted, lastMerged, nextId, clock,
                   mergeVars, keyVars,
                   metaVars>>

\* agregarEnlace from the moment fetchMetadata resolves (lines 655-690)
agregarEnlaceResolved ==
    /\ pendingAdd # <<>>
    /\ \E metadata \in FetchResults :
          links' = <<newLink(metadata, pendingAdd[1].url, pendingAdd[1].tags,
                             GeneratedId(nextId + 1), clock)>> \o links
    /\ nextId' = nextId + 1
    /\ clock' = clock + 1
    /\ inputValue' = <<>>
    /\ isLoading' = FALSE
    /\ pendingAdd' = <<>>
    /\ UNCHANGED <<error, lastDeleted, lastMerged, mergeVars, keyVars,
                   metaVars>>

\* lines 814-819 with every incoming record kept
allIncoming(incoming, prev) == incoming

\* lines 814-819: the incoming records whose url prev does not hold
dedupedIncoming(incoming, prev) == SelectSeq(incoming, LAMBDA l : ~HasUrl(prev, l.url))

\* importLinks(file) (lines 797-824) while the collection holds at most
\* `most` records
importing(file, most) ==
    LET \* lines 805-820
        Incoming(n) ==
            IF n.incoming = <<>>
            THEN error' = ErrNoValidLinks /\ UNCHANGED <<links, nextId, clock>>
            ELSE /\ Len(n.incoming) + Len(links) + Len(pendingAdd) <= most
                 /\ clock + Len(pendingAdd) <= MaxClock
                 /\ links' = dedupedIncoming(n.incoming, links) \o links
                 /\ nextId' = n.used
                 /\ clock' = clock + 1
                 /\ UNCHANGED error
    IN IF file.kind = "badjson"
       THEN error' = ErrBadJson /\ UNCHANGED <<links, nextId, clock>>
       ELSE IF file.value.type # "array"
       THEN error' = ErrNotAList /\ UNCHANGED <<links, nextId, clock>>
       ELSE Incoming(NormalizeAll(file.value.val, clock, nextId))

\* importLinks (lines 797-824)
importLinks ==
    /\ \E file \in ImportFiles : importing(file, MaxLinks)
    /\ UNCHANGED <<inputValue, isLoading, pendingAdd, lastDeleted, lastMerged,
                   mergeVars, keyVars,
                   metaVars>>

\* lines 694-697: the record findIndex finds and its index, counted from 0
deleted(list, id) ==
    LET index == CHOOSE i \in 1..Len(list) :
                    list[i].id = id /\ \A j \in 1..(i - 1) : list[j].id # id
    IN [link |-> list[index], index |-> index - 1]

\* line 698: [...prev.slice(0, index), ...prev.slice(index + 1)]
withoutIndex(list, index) == Upto(list, index) \o From(list, index + 2)

\* lines 711-720: the collection undoDelete leaves
restored(list, last) ==
    IF HasUrl(list, last.link.url) THEN list
    ELSE LET insertAt == IF last.index < Len(list) THEN last.index ELSE Len(list)
         IN Upto(list, insertAt) \o <<last.link>> \o From(list, insertAt + 1)

\* eliminarEnlace(id) (lines 692-707)
eliminarEnlace ==
    /\ \E id \in {links[i].id : i \in 1..Len(links)} :
          /\ lastDeleted' = <<deleted(links, id)>>
          /\ links' = withoutIndex(links, deleted(links, id).index)
    /\ UNCHANGED <<inputValue, error, isLoading, pendingAdd, lastMerged, nextId, clock,
                   mergeVars, keyVars,
                   metaVars>>

\* undoDelete (lines 709-722)
undoDelete ==
    /\ lastDeleted # <<>>
    /\ links' = restored(links, lastDeleted[1])
    /\ lastDeleted' = <<>>
    /\ UNCHANGED <<inputValue, error, isLoading, pendingAdd, lastMerged, nextId, clock,
                   mergeVars, keyVars,
                   metaVars>>

\* the timers of lines 389-402 and the dismiss button of line 963
expireNotice ==
    /\ \/ lastDeleted # <<>> /\ lastDeleted' = <<>> /\ UNCHANGED lastMerged
       \/ lastMerged # <<>> /\ lastMerged' = <<>> /\ UNCHANGED lastDeleted
    /\ UNCHANGED <<links, inputValue, error, isLoading, pendingAdd, nextId, clock,
                   mergeVars, keyVars,
                   metaVars>>

\* the merge button (lines 931-939), rendered when duplicatesCount > 0
mergeButton ==
    /\ duplicatesCount(links) > 0
    /\ LET Merged(result) ==
               IF result.removed > 0
               THEN links' = result.merged /\ lastMerged' = <<result.removed>>
               ELSE UNCHANGED <<links, lastMerged>>
       IN Merged(mergeDuplicates(links))
    /\ UNCHANGED <<inputValue, error, isLoading, pendingAdd, lastDeleted, nextId, clock,
                   mergeVars, keyVars,
                   metaVars>>

Next ==
    \/ SetInputValue
    \/ agregarEnlace
    \/ agregarEnlaceResolved
    \/ importLinks
    \/ eliminarEnlace
    \/ undoDelete
    \/ expireNotice
    \/ mergeButton

Spec == Init /\ [][Next]_vars

\* C10: whenever agregarEnlace runs on an input that validateUrl accepts and
\* whose dedup key is the dedup key of a record of the collection, it sets
\* the duplicate error and starts no add.
C10_AddRejectsDuplicateKey ==
    [][(/\ agregarEnlace
        /\ validateUrl(inputValue).error = ""
        /\ \E i \in 1..Len(links) :
              keyOfLink(links[i]) = getDedupKey(validateUrl(inputValue).normalized))
       => (error' = ErrDuplicate /\ pendingAdd' = <<>>)]_vars

\* the messages validateUrl returns
ValidationErrors == {ErrEmpty, ErrSpaces, ErrNoDot, ErrDomain, ErrStructure}

\* the URL validateUrl makes of the input is, up to letter case, the url of a
\* record of the collection
AlreadyInCollection ==
    /\ validateUrl(inputValue).error = ""
    /\ \E i \in 1..Len(links) :
          toLowerCase(links[i].url) = toLowerCase(validateUrl(inputValue).normalized)

\* C22: when agregarEnlace runs on an input that validateUrl rejects, or on
\* one whose URL is already in the collection, the collection stays as it
\* is, no fetch of metadata starts, and an error is set; the error of a
\* duplicate is none of the errors of validateUrl.
C22_RejectedAddChangesNothing ==
    [][(agregarEnlace /\ (validateUrl(inputValue).error # "" \/ AlreadyInCollection))
       => /\ links' = links
          /\ pendingAdd' = pendingAdd
          /\ isLoading' = isLoading
          /\ error' # ""
          /\ IF AlreadyInCollection
             THEN error' = ErrDuplicate /\ ErrDuplicate \notin ValidationErrors
             ELSE error' \in ValidationErrors]_vars

\* an add of a URL of the collection has been rejected
C22_Witness ==
    /\ error = ErrDuplicate
    /\ links # <<>>
    /\ AlreadyInCollection
    /\ pendingAdd = <<>>
    /\ ~isLoading

\* C28: in every reachable state the urls of the records of the collection,
\* in lower case, are pairwise distinct.
C28_UrlsDistinct ==
    \A i, j \in 1..Len(links) :
       i # j => toLowerCase(links[i].url) # toLowerCase(links[j].url)

\* C29: for every reachable collection and every record of it, eliminarEnlace
\* of the record's id followed at once by undoDelete leaves the collection
\* as it was, record by record.
C29_DeleteUndoRoundTrip ==
    \A i \in 1..Len(links) :
       restored(withoutIndex(links, deleted(links, links[i].id).index),
                deleted(links, links[i].id)) = links

(***************************************************************************)
(* SpecPreview: the URL box with the preview effect of lines 593-632 and   *)
(* agregarEnlace.  The effect runs after every render in which inputValue  *)
(* or links changed: first the cleanup of the run before it, which clears  *)
(* the timeout, then its body.  The callback of the timeout awaits         *)
(* fetchMetadata(finalUrl); the calls that have not resolved are           *)
(* `previewCalls`, and they resolve in any order.  fetchMetadata(url)      *)
(* resolves to the title of the page of url, written here with the url, so *)
(* that the results for two urls differ.                                   *)
(***************************************************************************)
MaxCalls == 2

InputB == <<"w","w","w",".","b",".","c","o">>
PreviewInputs == {<<>>, InputAX, InputB, <<"a","b">>}

\* what fetchMetadata(url) resolves to (metadataService.ts, lines 337-361)
ResolvedFor(url) == [title |-> <<"T"," ">> \o url, image |-> <<>>, url |-> url]

\* lines 593-617 after a render with inputValue = text and links = list
previewEffect(text, list) ==
    LET Validated(v) ==
            IF trim(text) = <<>> \/ v.error # ""
            THEN /\ isPreviewLoading' = FALSE
                 /\ previewError' = ""
                 /\ timer' = <<>>
            ELSE IF HasUrl(list, v.normalized)
            THEN /\ isPreviewLoading' = FALSE
                 /\ previewError' = ErrDuplicate
                 /\ timer' = <<>>
            ELSE /\ UNCHANGED isPreviewLoading
                 /\ previewError' = ""
                 /\ timer' = <<v.normalized>>
    IN /\ preview' = <<>>
       /\ previewUrl' = <<>>
       /\ Validated(validateUrl(text))

\* onChange of the URL box (lines 1098-1101), and the effect
typeUrl ==
    /\ ~isLoading
    /\ \E text \in PreviewInputs \ {inputValue} :
          /\ inputValue' = text
          /\ previewEffect(text, links)
    /\ error' = ""
    /\ UNCHANGED <<links, isLoading, pendingAdd, lastDeleted, lastMerged, nextId, clock,
                   previewCalls, mergeVars, keyVars, fieldVars, pickVars, fetchVars,
                   validateVars>>

\* lines 618-620: the timeout fires, up to `await fetchMetadata(finalUrl)`
previewTimer ==
    /\ timer # <<>>
    /\ Len(previewCalls) < MaxCalls
    /\ isPreviewLoading' = TRUE
    /\ previewCalls' = Append(previewCalls, timer[1])
    /\ timer' = <<>>
    /\ UNCHANGED <<preview, previewUrl, previewError, appVars, mergeVars, keyVars,
                   fieldVars, pickVars, fetchVars, validateVars>>

\* lines 621-628: a call of fetchMetadata resolves in the callback
previewResolved ==
    /\ \E i \in 1..Len(previewCalls) :
          /\ preview' = <<ResolvedFor(previewCalls[i])>>
          /\ previewUrl' = <<previewCalls[i]>>
          /\ previewCalls' = Upto(previewCalls, i - 1) \o From(previewCalls, i + 1)
    /\ isPreviewLoading' = FALSE
    /\ UNCHANGED <<previewError, timer, appVars, mergeVars, keyVars, fieldVars, pickVars,
                   fetchVars, validateVars>>

\* lines 655-657 with the preview taken whatever its url
reusableAny(finalUrl) == preview # <<>>

\* lines 655-657: previewUrl === finalUrl && preview
reusable(finalUrl) == previewUrl = <<finalUrl>> /\ preview # <<>>

\* lines 679-689 with the record made of metadata, and the effect
addLink(metadata, finalUrl, tags) ==
    /\ links' = <<newLink(metadata, finalUrl, tags, GeneratedId(nextId + 1), clock)>>
                \o links
    /\ nextId' = nextId + 1
    /\ clock' = clock + 1
    /\ inputValue' = <<>>
    /\ isLoading' = FALSE
    /\ pendingAdd' = <<>>
    /\ previewEffect(<<>>, links')

\* Enter in the URL box (line 1102): agregarEnlace (lines 634-690) to its
\* end when it takes the preview, and up to `await fetchMetadata(finalUrl)`
\* when it does not
pressEnter ==
    /\ ~isLoading
    /\ LET Validated(v) ==
               IF v.error # ""
               THEN /\ error' = v.error
                    /\ UNCHANGED <<links, inputValue, isLoading, pendingAdd, nextId, clock,
                                   previewVars>>
               ELSE IF HasUrl(links, v.normalized)
               THEN /\ error' = ErrDuplicate
                    /\ UNCHANGED <<links, inputValue, isLoading, pendingAdd, nextId, clock,
                                   previewVars>>
               ELSE /\ Len(links) < MaxLinks
                    /\ clock <= MaxClock
                    /\ error' = ""
                    /\ \E tagInput \in TagInputs :
                          IF reusable(v.normalized)
                          THEN addLink(preview[1], v.normalized, parseTagsInput(tagInput))
                          ELSE /\ isLoading' = TRUE
                               /\ pendingAdd' = <<[url |-> v.normalized,
                                                   tags |-> parseTagsInput(tagInput)]>>
                               /\ UNCHANGED <<links, inputValue, nextId, clock, previewVars>>
       IN Validated(validateUrl(inputValue))
    /\ UNCHANGED <<lastDeleted, lastMerged, previewCalls, mergeVars, keyVars, fieldVars,
                   pickVars, fetchVars, validateVars>>

\* agregarEnlace from the moment fetchMetadata resolves (lines 657-689)
addResolved ==
    /\ pendingAdd # <<>>
    /\ addLink(ResolvedFor(pendingAdd[1].url), pendingAdd[1].url, pendingAdd[1].tags)
    /\ UNCHANGED <<error, lastDeleted, lastMerged, previewCalls, mergeVars, keyVars,
                   fieldVars, pickVars, fetchVars, validateVars>>

NextPreview ==
    \/ typeUrl
    \/ previewTimer
    \/ previewResolved
    \/ pressEnter
    \/ addResolved

SpecPreview == Init /\ [][NextPreview]_vars

\* C24: whenever a preview is set, it is the result resolved for the URL
\* that the current input gives; the result of a request made for an
\* earlier input is never the preview after the input has changed.
C24_PreviewForCurrentInput ==
    preview # <<>>
    => /\ validateUrl(inputValue).error = ""
       /\ preview[1].url = validateUrl(inputValue).normalized

\* C27: a record that an add puts into the collection has the title and the
\* image of the result resolved for the record's own url, and an add that
\* awaited no fetch of its own took a preview resolved for that url.
C27_RecordFromOwnMetadata ==
    [][Len(links') > Len(links)
       => /\ links'[1].title = ResolvedFor(links'[1].url).title
          /\ links'[1].image = FALLBACK_IMAGE
          /\ pendingAdd = <<>> => (preview # <<>> /\ preview[1].url = links'[1].url)]_vars

\* an add awaits a fetch of its own while the preview holds the result
\* resolved for another url
C27_Witness ==
    /\ pendingAdd # <<>>
    /\ preview # <<>>
    /\ preview[1].url # pendingAdd[1].url
    /\ previewUrl = <<preview[1].url>>

\* C11: in every reachable state no two records of the collection have the
\* same id.
C11_IdsUnique ==
    \A i, j \in 1..Len(links) : i # j => links[i].id # links[j].id

(***************************************************************************)
(* Values of the variables a specification does not use                    *)
(***************************************************************************)
IdleApp ==
    /\ links = <<>>
    /\ inputValue = <<>>
    /\ error = ""
    /\ isLoading = FALSE
    /\ pendingAdd = <<>>
    /\ lastDeleted = <<>>
    /\ lastMerged = <<>>
    /\ nextId = 0
    /\ clock = 0

IdleMerge ==
    /\ items = <<>>
    /\ pass1 = <<>>
    /\ pass2 = <<>>

IdleKey ==
    /\ shape = <<>>
    /\ rawUrl = <<>>
    /\ dedupKey = <<>>
    /\ prevRaw = <<>>
    /\ prevKey = <<>>
    /\ edit = "none"

(***************************************************************************)
(* SpecMerge: mergeDuplicates applied to a collection, then to its own     *)
(* result.  The collection is any list of at most MaxItems records with    *)
(* distinct ids.                                                           *)
(***************************************************************************)
MaxItems == 3

MergeTimestamps == {1, 2}

\* values of the fields the merge rules combine
MergeFields ==
    { [title |-> <<"T">>, image |-> <<>>, tags |-> <<"a", "c">>, favorite |-> FALSE,
       archived |-> TRUE, notes |-> <<>>, rating |-> 0, priority |-> "medium",
       openCount |-> 0, lastOpenedAt |-> <<>>, checkStatus |-> "unknown",
       lastCheckedAt |-> <<>>],
      [title |-> <<"T","t">>, image |-> <<"i">>, tags |-> <<"b", "a">>, favorite |-> TRUE,
       archived |-> FALSE, notes |-> <<"n">>, rating |-> 3, priority |-> "high",
       openCount |-> 1, lastOpenedAt |-> <<2>>, checkStatus |-> "ok",
       lastCheckedAt |-> <<1>>],
      [title |-> <<"U">>, image |-> <<"j">>, tags |-> <<>>, favorite |-> FALSE,
       archived |-> TRUE, notes |-> <<"m">>, rating |-> 5, priority |-> "low",
       openCount |-> 2, lastOpenedAt |-> <<1>>, checkStatus |-> "broken",
       lastCheckedAt |-> <<>>] }

MakeLink(id, url, timestamp, fields) ==
    [id |-> id, url |-> url, domain |-> DomainOf[url], timestamp |-> timestamp,
     title |-> fields.title, image |-> fields.image, tags |-> fields.tags,
     favorite |-> fields.favorite, archived |-> fields.archived, notes |-> fields.notes,
     rating |-> fields.rating, priority |-> fields.priority,
     openCount |-> fields.openCount, lastOpenedAt |-> fields.lastOpenedAt,
     checkStatus |-> fields.checkStatus, lastCheckedAt |-> fields.lastCheckedAt]

MergeChoices == MergeUrls \X MergeTimestamps \X MergeFields

InitMerge ==
    /\ \E n \in 0..MaxItems : \E f \in [1..n -> MergeChoices] :
          items = [i \in 1..n |-> MakeLink(<<"r">> \o NumberToString(i), f[i][1], f[i][2], f[i][3])]
    /\ pass1 = <<>>
    /\ pass2 = <<>>
    /\ IdleApp
    /\ IdleKey
    /\ IdleMeta

\* const { merged, removed } = mergeDuplicates(items)
MergeFirstPass ==
    /\ pass1 = <<>>
    /\ pass1' = <<mergeDuplicates(items)>>
    /\ UNCHANGED <<items, pass2, appVars, keyVars, metaVars>>

\* mergeDuplicates(merged)
MergeSecondPass ==
    /\ pass1 # <<>>
    /\ pass2 = <<>>
    /\ pass2' = <<mergeDuplicates(pass1[1].merged)>>
    /\ UNCHANGED <<items, pass1, appVars, keyVars, metaVars>>

NextMerge == MergeFirstPass \/ MergeSecondPass

SpecMerge == InitMerge /\ [][NextMerge]_vars

\* the dedup keys of the records of a list
KeysOf(list) == [i \in 1..Len(list) |-> keyOfLink(list[i])]
\* the indices of the input records in the dedup-key group of key k
Group(keys, k) == {i \in DOMAIN keys : keys[i] = k}
TagsOf(list, idx) == UNION {Range(list[i].tags) : i \in idx}

\* C1: merging an already merged collection removes nothing and returns the
\* same records in the same order; after the first pass each dedup key
\* belongs to exactly one record.
C1_MergeIdempotent ==
    /\ pass1 # <<>> =>
          LET mk == KeysOf(pass1[1].merged)
          IN \A i, j \in DOMAIN mk : mk[i] = mk[j] => i = j
    /\ pass2 # <<>> =>
          /\ pass2[1].removed = 0
          /\ pass2[1].merged = pass1[1].merged

C1_Witness ==
    /\ pass2 # <<>>
    /\ pass1[1].removed >= 1
    /\ Len(pass1[1].merged) >= 2

\* C2: the tags of the merged records are together the tags of the input
\* records, and each merged record has exactly the tags of its group.
C2_TagsPreserved ==
    pass1 # <<>> =>
       LET merged == pass1[1].merged
           ik == KeysOf(items)
           mk == KeysOf(merged)
       IN /\ TagsOf(merged, DOMAIN merged) = TagsOf(items, DOMAIN items)
          /\ \A m \in DOMAIN merged :
                Range(merged[m].tags) = TagsOf(items, Group(ik, mk[m]))

C2_Witness ==
    /\ pass1 # <<>>
    /\ LET merged == pass1[1].merged
           ik == KeysOf(items)
           mk == KeysOf(merged)
       IN \E m \in DOMAIN merged :
             /\ Cardinality(Group(ik, mk[m])) >= 2
             /\ \A i \in Group(ik, mk[m]) : Range(items[i].tags) # Range(merged[m].tags)

\* C3: removed = number of input records - number of merged records, and
\* there is one merged record per distinct dedup key of the input.
C3_RemovedCount ==
    pass1 # <<>> =>
       /\ pass1[1].removed = Len(items) - Len(pass1[1].merged)
       /\ Len(pass1[1].merged) = Cardinality(Range(KeysOf(items)))

C3_Witness ==
    /\ pass1 # <<>>
    /\ pass1[1].removed = 1
    /\ Len(pass1[1].merged) = 2

\* C4: a merged record has the id, url, domain and timestamp of a record of
\* its group whose timestamp is the greatest of the group, wherever that
\* record stands in the input.
C4_NewestIdentityKept ==
    pass1 # <<>> =>
       LET merged == pass1[1].merged
           ik == KeysOf(items)
           mk == KeysOf(merged)
       IN \A m \in DOMAIN merged :
             \E i \in Group(ik, mk[m]) :
                /\ \A j \in Group(ik, mk[m]) : items[j].timestamp <= items[i].timestamp
                /\ merged[m].id = items[i].id
                /\ merged[m].url = items[i].url
                /\ merged[m].domain = items[i].domain
                /\ merged[m].timestamp = items[i].timestamp

\* a group whose newest record comes after an older one with another url
C4_Witness ==
    /\ pass1 # <<>>
    /\ LET ik == KeysOf(items)
       IN \E m \in DOMAIN pass1[1].merged : \E i, j \in DOMAIN items :
             /\ items[j].id = pass1[1].merged[m].id
             /\ i < j
             /\ ik[i] = ik[j]
             /\ items[i].timestamp < items[j].timestamp
             /\ items[i].url # items[j].url

\* C5: a merged record is archived exactly when every record of its group
\* was archived.
C5_ArchivedIffAll ==
    pass1 # <<>> =>
       LET merged == pass1[1].merged
           ik == KeysOf(items)
           mk == KeysOf(merged)
       IN \A m \in DOMAIN merged :
             merged[m].archived <=> \A i \in Group(ik, mk[m]) : items[i].archived

\* a group of three whose newest record is archived and whose merged record
\* is not
C5_Witness ==
    /\ pass1 # <<>>
    /\ Len(items) = 3
    /\ Len(pass1[1].merged) = 1
    /\ ~pass1[1].merged[1].archived
    /\ \E i \in 1..3 : /\ items[i].id = pass1[1].merged[1].id
                       /\ items[i].archived

(***************************************************************************)
(* Inputs of getDedupKey.  An input is written from its parts:             *)
(*   scheme  "" or "https://"                                              *)
(*   host    the text up to the path                                       *)
(*   segs    the path segments, each written behind a "/"                  *)
(*   slashes the number of "/" written behind the last segment             *)
(*   params  the query parameters, written behind "?" and joined by "&"    *)
(*   frag    <<>> or <<text>>, text written behind "#"                     *)
(*   caps    the whole text in upper case                                  *)
(*   pad     a space before and after the text                             *)
(***************************************************************************)
Slashes(n) == [i \in 1..n |-> "/"]

Write(sh) ==
    LET text == sh.scheme \o sh.host
                \o Flatten([i \in 1..Len(sh.segs) |-> <<"/">> \o sh.segs[i]])
                \o Slashes(sh.slashes)
                \o (IF sh.params = <<>> THEN <<>> ELSE <<"?">> \o Join(sh.params, <<"&">>))
                \o (IF sh.frag = <<>> THEN <<>> ELSE <<"#">> \o sh.frag[1])
        cased == IF sh.caps THEN toUpperCase(text) ELSE text
    IN IF sh.pad THEN <<" ">> \o cased \o <<" ">> ELSE cased

\* new URL(ensureHttpUrl(raw)) does not throw
Parsable(raw) == ParseURL(ensureHttpUrl(raw)).ok

IsString(v) == DOMAIN v = 1..Len(v) /\ \A i \in 1..Len(v) : v[i] \in STRING

HostA == <<"a",".","c","o">>
ParamId == <<"i","d","=","1">>
ParamUtm == <<"u","t","m","_","s","=","1">>
TrackingParams == {ParamUtm, <<"G","C","L","I","D","=","1">>}
PlainParams == {ParamId, <<"x">>}

\* getDedupKey(rawUrl) for the input written from shape sh, reached from the
\* current input by the edit named kind
KeyOf(sh, kind) ==
    /\ shape' = sh
    /\ rawUrl' = Write(sh)
    /\ dedupKey' = getDedupKey(Write(sh))
    /\ prevRaw' = rawUrl
    /\ prevKey' = dedupKey
    /\ edit' = kind
    /\ UNCHANGED <<appVars, mergeVars, metaVars>>

InitKeyOf(shapes) ==
    /\ shape \in shapes
    /\ rawUrl = Write(shape)
    /\ dedupKey = getDedupKey(Write(shape))
    /\ prevRaw = <<>>
    /\ prevKey = <<>>
    /\ edit = "typed"
    /\ IdleApp
    /\ IdleMerge
    /\ IdleMeta

(***************************************************************************)
(* SpecKey: getDedupKey on an input and on the same input with another     *)
(* fragment, another number of trailing slashes, or another letter case    *)
(* and surrounding whitespace.                                             *)
(***************************************************************************)
MaxSlashes == 2

Fragments == {<<>>, << <<>> >>, << <<"f">> >>}

KeyShapes ==
    [scheme : {<<>>, HttpsPrefix},
     host : {HostA, <<"a"," ","b">>, <<>>},
     segs : {<<>>, << <<"x">> >>},
     slashes : 0..MaxSlashes,
     params : {<<>>, <<ParamId>>, <<ParamUtm>>},
     frag : Fragments,
     caps : BOOLEAN,
     pad : BOOLEAN]

InitKey == InitKeyOf(KeyShapes)

KeyOfFragmentVariant ==
    \E f \in Fragments \ {shape.frag} : KeyOf([shape EXCEPT !.frag = f], "fragment")

KeyOfSlashVariant ==
    \E n \in (0..MaxSlashes) \ {shape.slashes} :
       KeyOf([shape EXCEPT !.slashes = n], "slash")

KeyOfCaseVariant ==
    \E c, p \in BOOLEAN :
       /\ <<c, p>> # <<shape.caps, shape.pad>>
       /\ KeyOf([shape EXCEPT !.caps = c, !.pad = p], "case")

NextKey == KeyOfFragmentVariant \/ KeyOfSlashVariant \/ KeyOfCaseVariant

SpecKey == InitKey /\ [][NextKey]_vars

\* C6: a parsable URL keeps its dedup key when a fragment is added, changed
\* or removed and when trailing slashes are added to or removed from its
\* path; a URL with no path segment has the path "/" in its key.
C6_FragmentAndSlashInvariant ==
    /\ (edit \in {"fragment", "slash"} /\ Parsable(prevRaw)) => dedupKey = prevKey
    /\ (shape.host = HostA /\ shape.segs = <<>>) =>
          startsWith(dedupKey, HostA \o <<"/">>)
             /\ (Len(dedupKey) > 5 => dedupKey[6] # "/")

C6_Witness ==
    /\ edit = "slash"
    /\ Parsable(prevRaw)
    /\ shape.slashes = 0
    /\ shape.segs = << <<"x">> >>
    /\ shape.frag = << <<"f">> >>
    /\ prevRaw = Write([shape EXCEPT !.slashes = 2])
    /\ dedupKey = HostA \o <<"/", "x">>

\* C9: getDedupKey returns a string for every input; for an input that
\* cannot be parsed it returns the input trimmed and in lower case, so two
\* unparsable inputs that differ in letter case and surrounding whitespace
\* only have the same key.
C9_TotalWithFallback ==
    /\ IsString(dedupKey)
    /\ ~Parsable(rawUrl) => dedupKey = toLowerCase(trim(rawUrl))
    /\ (edit = "case" /\ ~Parsable(rawUrl) /\ ~Parsable(prevRaw)) => dedupKey = prevKey

C9_Witness ==
    /\ edit = "case"
    /\ ~Parsable(rawUrl)
    /\ ~Parsable(prevRaw)
    /\ shape.pad /\ shape.caps
    /\ prevRaw = Write([shape EXCEPT !.caps = FALSE, !.pad = FALSE])
    /\ dedupKey = prevKey
    /\ dedupKey # <<>>

(***************************************************************************)
(* SpecQuery: getDedupKey on an input and on the same input with a         *)
(* tracking parameter added or removed, or with two parameters swapped.    *)
(***************************************************************************)
MaxParams == 3

QueryShapes ==
    [scheme : {HttpsPrefix},
     host : {HostA},
     segs : {<<>>, << <<"p">> >>},
     slashes : {0},
     params : {<<>>} \cup {<<q>> : q \in PlainParams}
                     \cup {<<q, r>> : q \in PlainParams, r \in PlainParams},
     frag : {<<>>},
     caps : {FALSE},
     pad : {FALSE}]

InitQuery == InitKeyOf(QueryShapes)

InsertAt(list, i, x) == Upto(list, i) \o <<x>> \o From(list, i + 1)
RemoveAt(list, i) == Upto(list, i - 1) \o From(list, i + 1)
Swap(list, i, j) == [list EXCEPT ![i] = list[j], ![j] = list[i]]

KeyOfTrackingAdded ==
    /\ Len(shape.params) < MaxParams
    /\ \E t \in TrackingParams : \E i \in 0..Len(shape.params) :
          KeyOf([shape EXCEPT !.params = InsertAt(shape.params, i, t)], "addTracking")

KeyOfTrackingRemoved ==
    \E i \in 1..Len(shape.params) :
       /\ shape.params[i] \in TrackingParams
       /\ KeyOf([shape EXCEPT !.params = RemoveAt(shape.params, i)], "removeTracking")

KeyOfReorderedQuery ==
    \E i, j \in 1..Len(shape.params) :
       /\ i < j
       /\ shape.params[i] # shape.params[j]
       /\ KeyOf([shape EXCEPT !.params = Swap(shape.params, i, j)], "reorder")

NextQuery == KeyOfTrackingAdded \/ KeyOfTrackingRemoved \/ KeyOfReorderedQuery

SpecQuery == InitQuery /\ [][NextQuery]_vars

\* C7: adding or removing a tracking parameter leaves the dedup key
\* unchanged.
C7_TrackingIgnored ==
    edit \in {"addTracking", "removeTracking"} => dedupKey = prevKey

\* C8: reordering the query parameters leaves the dedup key unchanged.
C8_ReorderInvariant ==
    edit = "reorder" => dedupKey = prevKey

(***************************************************************************)
(* SpecAuthority: getDedupKey on an input and on the same input with       *)
(* another scheme, another port or another user-info.  The shape of an     *)
(* input has two more parts here, written into its host:                   *)
(*   user    "" or the user-info with its "<<" "," "," "," "," "," "," "," "," "," "," "," "," "," "," "," "," "," "," "," "," "," "," "," "," "," "," "," "," "," ","*",")","
","(","*"," "," "," ","p","o","r","t"," "," "," "," ">>" or ":" and the port                                        *)
(***************************************************************************)
Schemes == {<<>>, HttpsPrefix, <<"h","t","t","p",":","/","/">>}
UserInfos == {<<>>, <<"u",":","p","@">>, <<"u","@">>}
Ports == {<<>>, <<":","8","0","8","0">>, <<":","4","4","3">>, <<":","7","0","0","0","0">>}

Authority(user, port) == user \o HostA \o port

AuthorityShapes ==
    {[scheme |-> s, user |-> u, port |-> p, host |-> Authority(u, p), segs |-> g,
      slashes |-> 0, params |-> q, frag |-> <<>>, caps |-> c, pad |-> FALSE] :
        s \in Schemes, u \in UserInfos, p \in Ports, g \in {<<>>, << <<"x">> >>},
        q \in {<<>>, <<ParamId>>}, c \in BOOLEAN}

InitAuthority == InitKeyOf(AuthorityShapes)

KeyOfSchemeVariant ==
    \E s \in Schemes \ {shape.scheme} : KeyOf([shape EXCEPT !.scheme = s], "scheme")

KeyOfPortVariant ==
    \E p \in Ports \ {shape.port} :
       KeyOf([shape EXCEPT !.port = p, !.host = Authority(shape.user, p)], "port")

KeyOfUserInfoVariant ==
    \E u \in UserInfos \ {shape.user} :
       KeyOf([shape EXCEPT !.user = u, !.host = Authority(u, shape.port)], "userinfo")

NextAuthority == KeyOfSchemeVariant \/ KeyOfPortVariant \/ KeyOfUserInfoVariant

SpecAuthority == InitAuthority /\ [][NextAuthority]_vars

\* mergeDuplicates makes one record of a record of each of the two URLs
MergedIntoOne(first, second) ==
    LET fields == CHOOSE f \in MergeFields : TRUE
        Into(result) == Len(result.merged) = 1 /\ result.removed = 1
    IN Into(mergeDuplicates(<<MakeLink(<<"r","1">>, first, 1, fields),
                              MakeLink(<<"r","2">>, second, 2, fields)>>))

\* C30: two parsable URLs that differ only in the scheme (http, https or
\* none written), in the port or in the user-info have the same dedup key,
\* and mergeDuplicates makes one record of two records that have them.
C30_AuthorityIgnored ==
    (/\ edit \in {"scheme", "port", "userinfo"}
     /\ Parsable(rawUrl)
     /\ Parsable(prevRaw))
    => /\ dedupKey = prevKey
       /\ (rawUrl \in KnownUrls /\ prevRaw \in KnownUrls) => MergedIntoOne(prevRaw, rawUrl)

\* the key of https://a.co:8080/x, reached from https://a.co/x
C30_Witness ==
    /\ edit = "port"
    /\ prevRaw = UrlAX
    /\ rawUrl = UrlAXPort
    /\ dedupKey = HostA \o <<"/", "x">>
    /\ MergedIntoOne(prevRaw, rawUrl)

(***************************************************************************)
(* SpecFields: the fields rating, priority, checkStatus and tags of the    *)
(* records of `links`.  The collection is loaded from storage (lines       *)
(* 279-291) or imported from entries whose fields hold values of any type, *)
(* then edited (saveEdit), toggled and merged.  Every entry carries an id  *)
(* and a timestamp, so that neither generateId nor Date.now() gives a      *)
(* field of a record; an import advances the clock as in Spec.             *)
(***************************************************************************)
MaxFieldImport == 1

\* an entry of a file, with the values of the four fields
FieldEntry(rating, priority, checkStatus, tags) ==
    Obj([id |-> Str(<<"r","2">>), url |-> Str(UrlAX), timestamp |-> Num(2),
         rating |-> rating, priority |-> priority, checkStatus |-> checkStatus,
         tags |-> tags])

EntryInDomain ==
    FieldEntry(Num(5), Str("low"), Str("broken"), Str(<<"A", ",", " ", "c">>))
EntryOutOfRange ==
    FieldEntry(Num(6), Str("urgent"), Str("down"),
               Arr(<<Str(<<" ","A">>), Num(3), Str(<<" ">>)>>))
EntryWrongTypes == FieldEntry(Str(<<"4">>), Num(2), Bool(TRUE), Num(1))
EntryMissing == FieldEntry(Undefined, Undefined, Undefined, Undefined)
FieldEntries ==
    {EntryInDomain, EntryOutOfRange, EntryWrongTypes, EntryMissing, EntryFull,
     EntryUnparsable}
FieldBatches == UNION {[1..n -> FieldEntries] : n \in 1..MaxFieldImport}

\* the edit form when saveEdit runs: editTags, editRating, editPriority
\* (lines 341-346, set by the controls of lines 1454-1505)
EditForms ==
    {[editTags |-> <<"B", ",", " ", " ", "c", ",">>, editRating |-> 3, editPriority |-> "high"]}

\* parsed.map(normalizeImportedLink)
NormalizeEach(entries) ==
    [i \in 1..Len(entries) |-> normalizeImportedLink(entries[i], clock, GeneratedId(nextId + 1))]

\* useState initializer of `links` (lines 279-291) on a stored array
InitFields ==
    /\ source \in FieldBatches
    /\ normalized = NormalizeEach(source)
    /\ links = Flatten(NormalizeEach(source))
    /\ inputValue = <<>>
    /\ error = ""
    /\ isLoading = FALSE
    /\ pendingAdd = <<>>
    /\ lastDeleted = <<>>
    /\ lastMerged = <<>>
    /\ nextId = 0
    /\ clock = 1
    /\ IdleMerge
    /\ IdleKey
    /\ IdleValidate
    /\ IdlePick
    /\ IdleFetch
    /\ IdlePreview

\* importLinks (lines 797-824) on a file that holds an array
importValues ==
    /\ clock <= MaxClock
    /\ clock' = clock + 1
    /\ \E batch \in FieldBatches :
          LET Incoming(each, incoming) ==
                  /\ normalized' = each
                  /\ IF incoming = <<>>
                     THEN error' = ErrNoValidLinks /\ UNCHANGED links
                     ELSE /\ links' = dedupedIncoming(incoming, links) \o links
                          /\ UNCHANGED error
              Each(each) == Incoming(each, Flatten(each))
          IN /\ source' = batch
             /\ Each(NormalizeEach(batch))
    /\ UNCHANGED <<inputValue, isLoading, pendingAdd, lastDeleted, lastMerged, nextId,
                   mergeVars, keyVars, validateVars, pickVars, fetchVars, previewVars>>

\* saveEdit(id) (lines 846-861) for the record being edited
saveEdit ==
    /\ \E index \in 1..Len(links), form \in EditForms :
          links' = [i \in 1..Len(links) |->
                      IF links[i].id = links[index].id
                      THEN [links[i] EXCEPT !.tags = parseTagsInput(form.editTags),
                                            !.rating = form.editRating,
                                            !.priority = form.editPriority]
                      ELSE links[i]]
    /\ UNCHANGED <<inputValue, error, isLoading, pendingAdd, lastDeleted, lastMerged, nextId,
                   clock, mergeVars, keyVars, metaVars>>

\* toggleFavorite(id) (lines 723-727)
toggleFavorite ==
    /\ \E index \in 1..Len(links) :
          links' = [i \in 1..Len(links) |->
                      IF links[i].id = links[index].id
                      THEN [links[i] EXCEPT !.favorite = ~links[i].favorite]
                      ELSE links[i]]
    /\ UNCHANGED <<inputValue, error, isLoading, pendingAdd, lastDeleted, lastMerged, nextId,
                   clock, mergeVars, keyVars, metaVars>>

\* toggleArchived(id) (lines 729-733)
toggleArchived ==
    /\ \E index \in 1..Len(links) :
          links' = [i \in 1..Len(links) |->
                      IF links[i].id = links[index].id
                      THEN [links[i] EXCEPT !.archived = ~links[i].archived]
                      ELSE links[i]]
    /\ UNCHANGED <<inputValue, error, isLoading, pendingAdd, lastDeleted, lastMerged, nextId,
                   clock, mergeVars, keyVars, metaVars>>

NextFields ==
    \/ importValues
    \/ saveEdit
    \/ toggleFavorite
    \/ toggleArchived
    \/ mergeButton

SpecFields == InitFields /\ [][NextFields]_vars

\* every tag is a non-empty string equal to its lower-cased form
TagsInDomain(tags) == \A i \in 1..Len(tags) : tags[i] # <<>> /\ toLowerCase(tags[i]) = tags[i]

FieldsInDomain(link) ==
    /\ link.rating \in 0..5
    /\ link.priority \in {"low", "medium", "high"}
    /\ link.checkStatus \in {"unknown", "ok", "broken"}
    /\ TagsInDomain(link.tags)

\* the record made from an entry has the default in every field whose value
\* in the entry is of the wrong type or out of range
DefaultsFor(raw, link) ==
    /\ (~IsNum(Prop(raw, "rating")) \/ Prop(raw, "rating").val \notin 0..5) => link.rating = 0
    /\ (~IsStr(Prop(raw, "priority")) \/ Prop(raw, "priority").val \notin {"low", "medium", "high"})
          => link.priority = "medium"
    /\ (~IsStr(Prop(raw, "checkStatus"))
        \/ Prop(raw, "checkStatus").val \notin {"unknown", "ok", "broken"})
          => link.checkStatus = "unknown"
    /\ (Prop(raw, "tags").type \notin {"array", "string"}) => link.tags = <<>>

MaxBatch == 2

\* the records the collection can hold after an import
MaxImported == MaxLinks + MaxBatch

EntryEmptyUrl == Obj([url |-> Str(<<" ">>)])
EntryNumberUrl == Obj([url |-> Num(5)])
EntryNoUrl == Obj([title |-> Str(<<"T">>)])
BatchEntries ==
    {EntryUrlOnly, EntryFull, EntryNotObject, EntryUnparsable, EntryEmptyUrl,
     EntryNumberUrl, EntryNoUrl}

BatchFiles ==
    {[kind |-> "badjson", value |-> Undefined], [kind |-> "json", value |-> Obj(<<>>)]}
    \cup {[kind |-> "json", value |-> Arr(batch)] :
            batch \in UNION {[1..n -> BatchEntries] : n \in 0..MaxBatch}}

\* parsed.map(normalizeImportedLink), entry by entry
RECURSIVE NormalizeSeq(_, _, _)
NormalizeSeq(entries, now, used) ==
    IF entries = <<>> THEN <<>>
    ELSE LET Rest(one) ==
                 <<one>> \o NormalizeSeq(Tail(entries), now,
                                         IF one # <<>> /\ one[1].id = GeneratedId(used + 1)
                                         THEN used + 1 ELSE used)
         IN Rest(normalizeImportedLink(entries[1], now, GeneratedId(used + 1)))

importFile ==
    /\ source = <<>>
    /\ error = ""
    /\ \E file \in BatchFiles :
          /\ importing(file, MaxImported)
          /\ source' = IF file.kind = "json" /\ file.value.type = "array"
                       THEN file.value.val ELSE <<>>
          /\ normalized' = IF file.kind = "json" /\ file.value.type = "array"
                           THEN NormalizeSeq(file.value.val, clock, nextId) ELSE <<>>
    /\ UNCHANGED <<inputValue, isLoading, pendingAdd, lastDeleted, lastMerged,
                   mergeVars, keyVars, pickVars, fetchVars, validateVars, previewVars>>

InitImport ==
    /\ links \in {<<>>, normalizeImportedLink(EntryUrlOnly, 1, GeneratedId(1))}
    /\ nextId = Len(links)
    /\ clock = MaxClock
    /\ inputValue = <<>>
    /\ error = ""
    /\ isLoading = FALSE
    /\ pendingAdd = <<>>
    /\ lastDeleted = <<>>
    /\ lastMerged = <<>>
    /\ IdleMerge
    /\ IdleKey
    /\ IdleMeta

NextImport == importFile

SpecImport == InitImport /\ [][NextImport]_vars

\* an entry that is an object with a string url that is not blank and parses
WellFormed(raw) ==
    /\ raw.type = "object"
    /\ IsStr(Prop(raw, "url"))
    /\ trim(Prop(raw, "url").val) # <<>>
    /\ Parsable(trim(Prop(raw, "url").val))

\* the URL of a well-formed entry as new URL(...).toString() writes it
UrlOfEntry(raw) == Href(ParseURL(ensureHttpUrl(trim(Prop(raw, "url").val))))

\* the collection holds the URL of the entry, up to letter case
Held(raw) ==
    \E i \in 1..Len(links) : toLowerCase(links[i].url) = toLowerCase(UrlOfEntry(raw))

\* C23: in every step of SpecImport, each of them an import: an import of
\* a list with at least one well-formed entry sets no error, puts in front
\* of the collection one record for each well-formed entry whose URL the
\* collection does not hold, in the order of the file, and leaves the
\* records of the collection as they are; the malformed entries bring
\* nothing.  An import of a value that is no list, or of a list without a
\* well-formed entry, sets an error and leaves the collection unchanged.
C23_ImportPerRecord ==
    [][LET valid == SelectSeq(source', WellFormed)
           fresh == SelectSeq(valid, LAMBDA e : ~Held(e))
           added == Len(links') - Len(links)
       IN IF valid = <<>>
          THEN error' \in {ErrBadJson, ErrNotAList, ErrNoValidLinks} /\ links' = links
          ELSE /\ error' = error
               /\ added = Len(fresh)
               /\ \A i \in 1..Len(fresh) : links'[i].url = UrlOfEntry(fresh[i])
               /\ \A i \in 1..Len(links) : links'[added + i] = links[i]]_vars

\* the import read an entry that is no object and a well-formed entry, and
\* put the record of the latter in front of the record of the collection
C23_Witness ==
    /\ source = <<EntryNotObject, EntryFull>>
    /\ normalized[1] = <<>>
    /\ Len(links) = 2
    /\ links[1].url = UrlAXSlash
    /\ links[2].url = UrlAX
    /\ error = ""

(***************************************************************************)
(* src/services/metadataService.ts: the image choice.  A score is held in  *)
(* units of 1/ScoreUnit, the divisor of line 109, so that area / 100000 is *)
(* an integer.                                                             *)
(***************************************************************************)
\* new URL(input, base) after the base has been parsed to b and the input
\* stripped to s: an input with a scheme, or with two slashes in front, is
\* parsed from the scheme state; any other from the relative state
ResolveWithBase(b, s) ==
    LET QueryText == IF b.hasQuery THEN <<"?">> \o b.query ELSE <<>>
        Directory ==
            Flatten([i \in 1..(Len(b.path) - 1) |-> <<"/">> \o b.path[i]]) \o <<"/">>
        RelativeTail ==
            IF s = <<>> THEN Pathname(b) \o QueryText
            ELSE IF s[1] \in {"/", "\\"} THEN s
            ELSE IF s[1] = "?" THEN Pathname(b) \o s
            ELSE IF s[1] = "#" THEN Pathname(b) \o QueryText \o s
            ELSE Directory \o s
        HasScheme(colon) == colon > 1 /\ IsSchemeString(Upto(s, colon - 1))
        TwoSlashes == Len(s) >= 2 /\ s[1] \in {"/", "\\"} /\ s[2] \in {"/", "\\"}
    IN IF ~b.ok THEN Failure
       ELSE IF HasScheme(FirstOf(s, {":"})) \/ TwoSlashes
       THEN ParseScheme(IF TwoSlashes THEN b.scheme \o <<":">> \o s ELSE s)
       ELSE ParsePathQueryFragment(b, IsSpecial(b.scheme), RelativeTail)

\* new URL(input, base) for a base with a special scheme; as in ParseURL an
\* input with a scheme has "//" after it
ParseURLWithBase(input, base) == ResolveWithBase(ParseURL(base), StripForParse(input))

endsWith(s, p) == Len(s) >= Len(p) /\ SubSeq(s, Len(s) - Len(p) + 1, Len(s)) = p

\* p occurs in s at index i
At(s, i, p) == i >= 1 /\ i + Len(p) - 1 <= Len(s) /\ SubSeq(s, i, i + Len(p) - 1) = p

\* u.split("#")[0].toLowerCase()
LowerBeforeHash(u) ==
    LET Cut(hash) == toLowerCase(IF hash = 0 THEN u ELSE Upto(u, hash - 1))
    IN Cut(FirstOf(u, {"#"}))

\* /(\.)(e1|e2|...)(\?|$)/.test(lower)
HasExtension(lower, exts) ==
    \E i \in 1..Len(lower), e \in exts :
        /\ At(lower, i, <<".">> \o e)
        /\ (i + Len(e) = Len(lower) \/ lower[i + Len(e) + 1] = "?")

\* /(^|[\/_-])(w1|w2|...)([\._-]|$)/.test(lower)
HasName(lower, words) ==
    \E i \in 1..Len(lower), w \in words :
        /\ At(lower, i, w)
        /\ (i = 1 \/ lower[i - 1] \in {"/", "_", "-"})
        /\ (i + Len(w) = Len(lower) + 1 \/ lower[i + Len(w)] \in {".", "_", "-"})

IcoExts == {<<"i","c","o">>}
JpegExts == {<<"j","p","g">>, <<"j","p","e","g">>}
WebpExts == {<<"w","e","b","p">>, <<"a","v","i","f">>}
PngExts == {<<"p","n","g">>}
GifExts == {<<"g","i","f">>, <<"s","v","g">>}
ImageExts == JpegExts \cup WebpExts \cup PngExts \cup GifExts
FaviconPath == <<"/","f","a","v","i","c","o","n">>
FaviconParam == <<"f","a","v","i","c","o","n","=">>

\* isLikelyImageUrl without the favicon and icon rules of lines 10-12
isImageByExtension(candidate) ==
    IF candidate = <<>> THEN FALSE
    ELSE \/ startsWith(LowerBeforeHash(candidate), <<"d","a","t","a",":","i","m","a","g","e","/">>)
         \/ startsWith(LowerBeforeHash(candidate), <<"b","l","o","b",":">>)
         \/ HasExtension(LowerBeforeHash(candidate), ImageExts)

\* isLikelyImageUrl (lines 4-14)
isLikelyImageUrl(candidate) ==
    LET Likely(lower) ==
            IF startsWith(lower, <<"d","a","t","a",":","i","m","a","g","e","/">>) THEN TRUE
            ELSE IF startsWith(lower, <<"b","l","o","b",":">>) THEN TRUE
            ELSE IF includes(lower, FaviconMarker) THEN FALSE
            ELSE IF includes(lower, FaviconPath) \/ includes(lower, FaviconParam) THEN FALSE
            ELSE IF HasExtension(lower, IcoExts) THEN FALSE
            ELSE HasExtension(lower, ImageExts)
    IN IF candidate = <<>> THEN FALSE ELSE Likely(LowerBeforeHash(candidate))

\* the match of /[-_](\d{2,4})x(\d{2,4})(?=\.(png|jpe?g|webp|avif|gif|svg)(\?|$))/
\* at index i with n1 and n2 digits: each run of digits ends at a character
\* that is no digit, so at most one (n1, n2) matches at i
SizeShape(s, i, n1, n2) ==
    /\ i + n1 + n2 + 2 <= Len(s)
    /\ s[i] \in {"-", "_"}
    /\ \A k \in (i + 1)..(i + n1) : IsDigit(s[k])
    /\ s[i + n1 + 1] = "x"
    /\ \A k \in (i + n1 + 2)..(i + n1 + n2 + 1) : IsDigit(s[k])
    /\ \E e \in ImageExts :
          /\ At(s, i + n1 + n2 + 2, <<".">> \o e)
          /\ (i + n1 + n2 + 2 + Len(e) = Len(s) \/ s[i + n1 + n2 + 3 + Len(e)] = "?")

\* parseSizeFromUrl (lines 16-26): <<>> for null, or <<[w, h, area]>>
parseSizeFromUrl(u) ==
    LET Size(w, h) == <<[w |-> w, h |-> h, area |-> w * h]>>
        Groups(lower, m) ==
            Size(DigitsValue(SubSeq(lower, m[1] + 1, m[1] + m[2]), 0),
                 DigitsValue(SubSeq(lower, m[1] + m[2] + 2, m[1] + m[2] + m[3] + 1), 0))
        Leftmost(lower, matches) ==
            IF matches = {} THEN <<>>
            ELSE Groups(lower, CHOOSE m \in matches : \A o \in matches : m[1] <= o[1])
        Match(lower) ==
            Leftmost(lower, {m \in (1..Len(lower)) \X (2..4) \X (2..4) :
                                SizeShape(lower, m[1], m[2], m[3])})
    IN Match(LowerBeforeHash(u))

\* resolveCandidateUrl from line 31, raw being trimmed and not empty
ResolveTrimmed(baseUrl, raw) ==
    LET Resolved(u) == IF u.ok THEN Href(u) ELSE raw
    IN IF startsWith(toLowerCase(raw), <<"d","a","t","a",":","i","m","a","g","e","/">>) THEN raw
       ELSE IF startsWith(toLowerCase(raw), <<"b","l","o","b",":">>) THEN raw
       ELSE Resolved(ParseURLWithBase(raw, baseUrl))

\* resolveCandidateUrl (lines 28-38)
resolveCandidateUrl(baseUrl, candidate) ==
    IF trim(candidate) = <<>> THEN <<>> ELSE ResolveTrimmed(baseUrl, trim(candidate))

WordPressHosts == {<<"i","0",".","w","p",".","c","o","m">>, <<"i","1",".","w","p",".","c","o","m">>, <<"i","2",".","w","p",".","c","o","m">>}

\* imgHost === pageHost || imgHost.endsWith(`.${pageHost}`)
SameSite(imgHost, pageHost) == imgHost = pageHost \/ endsWith(imgHost, <<".">> \o pageHost)

\* isAllowedImageHost that allows every host
allowAnyHost(pageUrl, imageUrl) == TRUE

\* isAllowedImageHost (lines 40-63)
isAllowedImageHost(pageUrl, imageUrl) ==
    LET Hosts(pageHost, imgHost) ==
            IF SameSite(imgHost, pageHost) THEN TRUE
            ELSE imgHost \in WordPressHosts
        Parsed(page, img) ==
            IF ~page.ok \/ ~img.ok THEN FALSE
            ELSE Hosts(toLowerCase(Hostname(page)), toLowerCase(Hostname(img)))
    IN Parsed(ParseURL(pageUrl), ParseURL(imageUrl))

LogoWords ==
    {<<"s","i","t","e","-","l","o","g","o">>, <<"c","u","s","t","o","m","-","l","o","g","o">>, <<"h","e","a","d","e","r","-","l","o","g","o">>, <<"b","r","a","n","d">>, <<"i","c","o","n">>, <<"a","v","a","t","a","r">>,
     <<"g","r","a","v","a","t","a","r">>, <<"s","p","r","i","t","e">>, <<"f","a","v","i","c","o","n">>}
SquareSizes ==
    {<<"1","6">>, <<"2","4">>, <<"3","2">>, <<"4","8">>, <<"6","4">>, <<"9","6">>, <<"1","2","8">>, <<"1","5","0">>, <<"1","8","0">>, <<"1","9","2">>, <<"2","5","6">>}
ThumbSizes == {<<"1","5","0">>, <<"3","0","0">>}

\* looksLikeLogoish (lines 65-80)
looksLikeLogoish(u) ==
    LET Logoish(lower) ==
            \/ \E w \in LogoWords : includes(lower, w)
            \/ \E i \in 1..Len(lower), n \in SquareSizes :
                  lower[i] \in {"-", "_"} /\ At(lower, i + 1, n \o <<"x">> \o n \o <<".">>)
            \/ \E i \in 1..Len(lower), n \in ThumbSizes, m \in ThumbSizes :
                  lower[i] \in {"-", "_"} /\ At(lower, i + 1, n \o <<"x">> \o m \o <<".">>)
    IN Logoish(LowerBeforeHash(u))

ScoreUnit == 100000
Min(m, n) == IF m <= n THEN m ELSE n

\* scoreImageUrl, lines 107-123: sz is <<>> or <<[w, h, area]>>
SizeScore(sz) ==
    IF sz = <<>> THEN -1 * ScoreUnit
    ELSE Min(12 * ScoreUnit, sz[1].area)
         + (IF sz[1].w >= 900 \/ sz[1].h >= 600 THEN 2 * ScoreUnit ELSE 0)
         + (IF sz[1].h = 0 \/ sz[1].w >= 4 * sz[1].h \/ 4 * sz[1].w <= sz[1].h
            THEN -10 * ScoreUnit
            ELSE IF sz[1].w >= 3 * sz[1].h \/ 100 * sz[1].w <= 33 * sz[1].h
            THEN -6 * ScoreUnit
            ELSE 0)
         + (IF sz[1].w < 500 \/ sz[1].h < 300 THEN -6 * ScoreUnit
            ELSE IF sz[1].w < 800 THEN -2 * ScoreUnit
            ELSE 0)

\* scoreImageUrl from line 84, on lower
ScoreOfLower(lower) ==
    (IF includes(lower, <<"/","w","p","-","c","o","n","t","e","n","t","/","u","p","l","o","a","d","s","/">>) THEN 6 * ScoreUnit ELSE 0)
    + (IF includes(lower, <<"/","w","p","-","c","o","n","t","e","n","t","/","t","h","e","m","e","s","/">>) \/ includes(lower, <<"/","w","p","-","c","o","n","t","e","n","t","/","p","l","u","g","i","n","s","/">>)
       THEN -4 * ScoreUnit ELSE 0)
    + (IF HasExtension(lower, JpegExts) THEN 6 * ScoreUnit
       ELSE IF HasExtension(lower, WebpExts) THEN 5 * ScoreUnit
       ELSE IF HasExtension(lower, PngExts) THEN 2 * ScoreUnit
       ELSE IF HasExtension(lower, GifExts) THEN ScoreUnit
       ELSE 0)
    + (IF HasName(lower, {<<"i","m","g","m","a","i","n">>, <<"i","m","g","_","m","a","i","n">>, <<"i","m","g","-","m","a","i","n">>}) THEN 10 * ScoreUnit ELSE 0)
    + (IF HasName(lower, {<<"f","e","a","t","u","r","e","d">>, <<"h","e","r","o">>, <<"c","o","v","e","r">>}) THEN 4 * ScoreUnit ELSE 0)
    + (IF HasName(lower, {<<"b","a","n","n","e","r">>, <<"h","e","a","d","e","r">>}) THEN -6 * ScoreUnit ELSE 0)
    + SizeScore(parseSizeFromUrl(lower))
    + (IF looksLikeLogoish(lower) THEN -8 * ScoreUnit ELSE 0)
    + (IF includes(lower, FaviconMarker) THEN -50 * ScoreUnit ELSE 0)
    + (IF includes(lower, FaviconPath) \/ HasExtension(lower, IcoExts)
       THEN -50 * ScoreUnit ELSE 0)

\* scoreImageUrl (lines 82-130), in units of 1/ScoreUnit
scoreImageUrl(u) == ScoreOfLower(LowerBeforeHash(u))

\* line 154 with >= for >
BetterOrEqual(s, bestScore) == s >= bestScore

\* the replacement of line 154: a candidate that scores more than the best
Better(s, bestScore) == s > bestScore

\* lines 152-158: the scan of filtered.slice(1), from index at
RECURSIVE ScanBest(_, _, _, _)
ScanBest(filtered, at, best, bestScore) ==
    IF at > Len(filtered) THEN [best |-> best, bestScore |-> bestScore]
    ELSE LET Scored(c, s) ==
                 IF Better(s, bestScore) THEN ScanBest(filtered, at + 1, c, s)
                 ELSE ScanBest(filtered, at + 1, best, bestScore)
         IN Scored(filtered[at], scoreImageUrl(filtered[at]))

\* lines 142-146: uniq.filter(isLikelyImageUrl).filter(host policy)
FilterCandidates(pageUrl, uniq, allowExternalHosts) ==
    SelectSeq(SelectSeq(uniq, isLikelyImageUrl),
              LAMBDA u : IF ~startsWith(u, <<"h","t","t","p">>) THEN TRUE
                         ELSE IF allowExternalHosts THEN TRUE
                         ELSE isAllowedImageHost(pageUrl, u))

\* lines 137-146: resolved, uniq, filtered
filteredCandidates(pageUrl, candidates, allowExternalHosts) ==
    FilterCandidates(
        pageUrl,
        Unique(SelectSeq([i \in 1..Len(candidates) |->
                             resolveCandidateUrl(pageUrl, candidates[i])],
                         LAMBDA r : r # <<>>)),
        allowExternalHosts)

LowConfidence == 2
ExternalConfidence == 6

\* lines 160-178 without the test of lines 164-177
AcceptBestFromLow(pageUrl, allowExternalHosts, best, bestScore) ==
    IF bestScore < LowConfidence * ScoreUnit THEN <<>> ELSE <<best>>

\* lines 160-178: best and bestScore to the value returned
AcceptBest(pageUrl, allowExternalHosts, best, bestScore) ==
    LET External(bestUrl, page) ==
            IF ~bestUrl.ok \/ ~page.ok THEN <<best>>
            ELSE IF /\ ~SameSite(toLowerCase(Hostname(bestUrl)), toLowerCase(Hostname(page)))
                    /\ bestScore < ExternalConfidence * ScoreUnit
            THEN <<>>
            ELSE <<best>>
    IN IF bestScore < LowConfidence * ScoreUnit THEN <<>>
       ELSE IF allowExternalHosts THEN External(ParseURL(best), ParseURL(pageUrl))
       ELSE <<best>>

\* lines 147-158: the first of the candidates of the highest score
BestOfFiltered(filtered) == ScanBest(filtered, 2, filtered[1], scoreImageUrl(filtered[1]))

\* pickBestImage from line 147
PickFiltered(pageUrl, allowExternalHosts, filtered) ==
    LET Scanned(r) == AcceptBest(pageUrl, allowExternalHosts, r.best, r.bestScore)
    IN IF Len(filtered) = 0 THEN <<>> ELSE Scanned(BestOfFiltered(filtered))

\* pickBestImage (lines 132-179): <<>> for undefined, or <<best>>
pickBestImage(pageUrl, candidates, allowExternalHosts) ==
    PickFiltered(pageUrl, allowExternalHosts,
                 filteredCandidates(pageUrl, candidates, allowExternalHosts))

(***************************************************************************)
(* SpecPick: a call of pickBestImage.  The page, the option and the list   *)
(* of argCandidates are chosen, then the call returns.                        *)
(***************************************************************************)
MaxCandidates == 2

PagePost == <<"h","t","t","p","s",":","/","/","s","i","t","e",".","c","o","m","/","p","o","s","t">>
PickPages == {PagePost, <<"h","t","t","p","s",":","/","/","b","l","o","g",".","s","i","t","e",".","c","o","m","/","a","/","b">>}

CandFavicon == <<"/","f","a","v","i","c","o","n",".","i","c","o">>
CandUploads == <<"/","w","p","-","c","o","n","t","e","n","t","/","u","p","l","o","a","d","s","/","2","0","2","4","/","p","h","o","t","o","-","1","2","0","0","x","8","0","0",".","j","p","g">>
CandLogo == <<"/","l","o","g","o","-","3","2","x","3","2",".","p","n","g">>
CandRelative == <<"a",".","j","p","g">>
CandRooted == <<"/","b",".","j","p","g">>
CandFragment == <<"/","c",".","j","p","g","#","/","f","a","v","i","c","o","n">>
CandDataParam == <<"d","a","t","a",":","i","m","a","g","e","/","i","m","g","-","m","a","i","n",".","j","p","g","?","f","a","v","i","c","o","n","=">>
CandParam == <<"/","p","h","o","t","o","-","1","2","0","0","x","8","0","0",".","j","p","g","?","f","a","v","i","c","o","n","=","1">>
CandCdn == <<"h","t","t","p","s",":","/","/","i","0",".","w","p",".","c","o","m","/","a",".","w","e","b","p">>
CandExternalWeak == <<"h","t","t","p","s",":","/","/","e","v","i","l",".","c","o","m","/","a",".","j","p","g">>
CandExternalStrong == <<"h","t","t","p","s",":","/","/","e","v","i","l",".","c","o","m","/","w","p","-","c","o","n","t","e","n","t","/","u","p","l","o","a","d","s","/","b",".","j","p","g">>
CandSubdomain == <<"h","t","t","p","s",":","/","/","c","d","n",".","s","i","t","e",".","c","o","m","/","h","e","r","o",".","j","p","g">>
CandUnparsable == <<"h","t","t","p","s",":","/","/","e"," ","v","i","l",".","c","o","m","/","a",".","j","p","g">>
PickCandidates ==
    {CandFavicon, CandUploads, CandLogo, CandRelative, CandRooted, CandFragment,
     CandDataParam, CandParam, CandCdn, CandExternalWeak, CandExternalStrong,
     CandSubdomain, CandUnparsable,
     <<"h","t","t","p","s",":","/","/","w","w","w",".","g","o","o","g","l","e",".","c","o","m","/","s","2","/","f","a","v","i","c","o","n","s","?","s","z","=","1","2","8">>, <<"/","/","c","d","n",".","s","i","t","e",".","c","o","m","/","h","e","r","o",".","j","p","g">>,
     <<"/","A",".","I","C","O">>, <<"d","a","t","a",":","i","m","a","g","e","/","f","a","v","i","c","o","n",".","j","p","g">>, <<" ">>}

InitPick ==
    /\ argPageUrl \in PickPages
    /\ argAllowExternal \in BOOLEAN
    /\ argCandidates = <<>>
    /\ picked = <<>>
    /\ IdleApp
    /\ IdleMerge
    /\ IdleKey
    /\ IdleValidate
    /\ IdleField
    /\ IdleFetch
    /\ IdlePreview

\* one more candidate in the list the caller collects
AddCandidate ==
    /\ picked = <<>>
    /\ Len(argCandidates) < MaxCandidates
    /\ \E c \in PickCandidates : argCandidates' = Append(argCandidates, c)
    /\ UNCHANGED <<argPageUrl, argAllowExternal, picked, appVars, mergeVars, keyVars,
                   validateVars, fieldVars,
                   fetchVars, previewVars>>

\* pickBestImage(pageUrl, candidates, opts) returns
pickBest ==
    /\ picked = <<>>
    /\ picked' = <<pickBestImage(argPageUrl, argCandidates, argAllowExternal)>>
    /\ UNCHANGED <<argPageUrl, argCandidates, argAllowExternal, appVars, mergeVars, keyVars,
                   validateVars,
                   fieldVars, fetchVars, previewVars>>

NextPick == AddCandidate \/ pickBest

SpecPick == InitPick /\ [][NextPick]_vars

\* the call has returned the URL u
Returned(u) == picked = << <<u>> >>

\* the URL the call has returned, if it has returned one
ReturnedUrls == IF picked = <<>> THEN {} ELSE Range(picked[1])

\* in the example of the page https://site.com/post the uploads photo is chosen
ExamplePhotoChosen ==
    (/\ picked # <<>>
     /\ argPageUrl = PagePost
     /\ argCandidates = <<CandFavicon, CandUploads>>)
    => Returned(<<"h","t","t","p","s",":","/","/","s","i","t","e",".","c","o","m","/","w","p","-","c","o","n","t","e","n","t","/","u","p","l","o","a","d","s","/","2","0","2","4","/","p","h","o","t","o","-","1","2","0","0","x","8","0","0",".","j","p","g">>)

\* C13 as stated: pickBestImage never returns a URL that contains "/favicon"
\* or "favicon=", ends in ".ico" or holds the address of the favicon
\* service, and in the example the uploads photo is chosen.
C13_FaviconNeverWins ==
    /\ \A u \in ReturnedUrls :
          /\ ~includes(u, FaviconPath)
          /\ ~includes(u, FaviconParam)
          /\ ~endsWith(u, <<".","i","c","o">>)
          /\ ~includes(u, FaviconMarker)
    /\ ExamplePhotoChosen

\* C13 amended: the text before the first "#" of the URL pickBestImage
\* returns, in lower case, never contains "/favicon" or the address of the
\* favicon service and never has ".ico" at its end or before a "?"; unless
\* the URL is a data:image/ or blob: URL, that text never contains
\* "favicon="; and in the example the uploads photo is chosen.
C13_FaviconNeverWinsBeforeHash ==
    /\ \A u \in ReturnedUrls :
          /\ ~includes(LowerBeforeHash(u), FaviconPath)
          /\ ~includes(LowerBeforeHash(u), FaviconMarker)
          /\ ~HasExtension(LowerBeforeHash(u), IcoExts)
          /\ (~startsWith(LowerBeforeHash(u), <<"d","a","t","a",":","i","m","a","g","e","/">>)
              /\ ~startsWith(LowerBeforeHash(u), <<"b","l","o","b",":">>))
                => ~includes(LowerBeforeHash(u), FaviconParam)
    /\ ExamplePhotoChosen

\* the call of the example has returned the uploads photo
C13_Witness ==
    /\ argPageUrl = PagePost
    /\ argCandidates = <<CandFavicon, CandUploads>>
    /\ Returned(<<"h","t","t","p","s",":","/","/","s","i","t","e",".","c","o","m","/","w","p","-","c","o","n","t","e","n","t","/","u","p","l","o","a","d","s","/","2","0","2","4","/","p","h","o","t","o","-","1","2","0","0","x","8","0","0",".","j","p","g">>)

\* the index of the first candidate of the highest score in a list that is
\* not empty
TopIndex(filtered) ==
    CHOOSE i \in 1..Len(filtered) :
        /\ \A j \in 1..Len(filtered) : scoreImageUrl(filtered[j]) <= scoreImageUrl(filtered[i])
        /\ \A j \in 1..(i - 1) : scoreImageUrl(filtered[j]) < scoreImageUrl(filtered[i])

\* the first candidate of the highest score if that score is at least 2
TopWithFloor(filtered) ==
    LET Top(top) == IF scoreImageUrl(top) < LowConfidence * ScoreUnit THEN <<>> ELSE <<top>>
    IN IF filtered = <<>> THEN <<>> ELSE Top(filtered[TopIndex(filtered)])

\* C14: without allowExternalHosts the call returns the first of the
\* candidates of the highest score among those left by resolution,
\* de-duplication, the image test and the host policy, if that score is at
\* least 2, and nothing if no candidate is left or the highest score is below
\* 2, as for the single candidate /logo-32x32.png.
C14_FirstOfHighestScore ==
    (picked # <<>> /\ ~argAllowExternal)
    => /\ picked[1] = TopWithFloor(filteredCandidates(argPageUrl, argCandidates, FALSE))
       /\ argCandidates = <<CandLogo>> => picked[1] = <<>>

\* two candidates of the same score were listed and the first was returned
C14_Witness ==
    /\ ~argAllowExternal
    /\ argPageUrl = PagePost
    /\ argCandidates = <<CandRooted, CandRelative>>
    /\ scoreImageUrl(<<"h","t","t","p","s",":","/","/","s","i","t","e",".","c","o","m","/","b",".","j","p","g">>) = scoreImageUrl(<<"h","t","t","p","s",":","/","/","s","i","t","e",".","c","o","m","/","a",".","j","p","g">>)
    /\ Returned(<<"h","t","t","p","s",":","/","/","s","i","t","e",".","c","o","m","/","b",".","j","p","g">>)

\* u has a host that is neither the host of the page nor a subdomain of it
IsExternalTo(pageUrl, u) ==
    LET External(page, img) ==
            /\ page.ok
            /\ img.ok
            /\ ~SameSite(toLowerCase(Hostname(img)), toLowerCase(Hostname(page)))
    IN External(ParseURL(pageUrl), ParseURL(u))

\* the record of a URL is parsed and its host is that of the page or a subdomain
IsSameSiteAs(pageUrl, u) ==
    LET Same(page, img) ==
            /\ page.ok
            /\ img.ok
            /\ SameSite(toLowerCase(Hostname(img)), toLowerCase(Hostname(page)))
    IN Same(ParseURL(pageUrl), ParseURL(u))

\* C15 for the first candidate of the highest score, top
TopAccepted(top) ==
    /\ (IsSameSiteAs(argPageUrl, top) /\ scoreImageUrl(top) >= LowConfidence * ScoreUnit)
          => Returned(top)
    /\ (/\ IsExternalTo(argPageUrl, top)
        /\ scoreImageUrl(top) >= LowConfidence * ScoreUnit
        /\ scoreImageUrl(top) < ExternalConfidence * ScoreUnit)
          => picked[1] = <<>>

\* C15: with allowExternalHosts the call returns a candidate whose host is
\* neither the host of the page nor a subdomain of it only if its score is
\* at least 6; a same-site first candidate of the highest score is returned
\* from score 2; an external one with a score from 2 to below 6 makes the
\* call return nothing.
C15_ExternalNeedsSix ==
    (picked # <<>> /\ argAllowExternal)
    => /\ \A u \in ReturnedUrls :
             IsExternalTo(argPageUrl, u) => scoreImageUrl(u) >= ExternalConfidence * ScoreUnit
       /\ LET Top(filtered) ==
                  filtered # <<>> => TopAccepted(filtered[TopIndex(filtered)])
          IN Top(filteredCandidates(argPageUrl, argCandidates, TRUE))

\* an external candidate of score 5 was listed before a same-site candidate
\* of score 4 or less and nothing was returned; and an external candidate of
\* score 11 was returned by another call
C15_Witness ==
    /\ argAllowExternal
    /\ argPageUrl = PagePost
    /\ \/ /\ argCandidates = <<CandExternalWeak, CandLogo>>
          /\ picked = << <<>> >>
       \/ /\ argCandidates = <<CandExternalStrong>>
          /\ Returned(CandExternalStrong)

\* C16: without allowExternalHosts every http or https URL the call returns
\* has a host that is the host of the page, a subdomain of it, or one of
\* i0.wp.com, i1.wp.com, i2.wp.com.
C16_HostPolicy ==
    (picked # <<>> /\ ~argAllowExternal)
    => \A u \in ReturnedUrls :
          (startsWith(u, <<"h","t","t","p",":","/","/">>) \/ startsWith(u, <<"h","t","t","p","s",":","/","/">>))
             => \/ IsSameSiteAs(argPageUrl, u)
                \/ ParseURL(u).ok /\ toLowerCase(Hostname(ParseURL(u))) \in WordPressHosts

\* an external candidate of score 11 was listed with a candidate of score 4
\* on an allow-listed host, and the latter was returned
C16_Witness ==
    /\ ~argAllowExternal
    /\ argCandidates = <<CandExternalStrong, CandCdn>>
    /\ Returned(CandCdn)

(***************************************************************************)
(* fetchMetadata (metadataService.ts, lines 209-362).  A body is the text  *)
(* of a response; the document DOMParser makes of the text of the first    *)
(* proxy is given with the response, as the values the code reads from it: *)
(* meta[name] is the content of the first meta element of that name,       *)
(* titleTag the text of the title element, with <<>> for a missing or      *)
(* empty value, and imgs the img elements in the order of querySelectorAll.*)
(***************************************************************************)
PlaceholderTitle == <<"E","n","l","a","c","e"," ","G","u","a","r","d","a","d","o">>

\* line 210
TargetUrl(url) == IF startsWith(url, <<"h","t","t","p">>) THEN url ELSE HttpsPrefix \o url

\* lines 224-227: the markers of a block page
ForbiddenMarker == <<"f","o","r","b","i","d","d","e","n">>
CloudflareMarkers == {<<"c","f","-","b","r","o","w","s","e","r","-","v","e","r","i","f","i","c","a","t","i","o","n">>, <<"c","l","o","u","d","f","l","a","r","e">>}

MinBodyLength == 600

\* line 228 without the test of the length
AlwaysLongEnough(body) == FALSE

\* line 228: html.length < 600
TooShort(body) == Len(body) < MinBodyLength

\* lines 224-228: the body of the first proxy is discarded
Discarded(body) ==
    \/ includes(toLowerCase(body), ForbiddenMarker)
    \/ \E marker \in CloudflareMarkers : includes(body, marker)
    \/ TooShort(body)

\* the smallest number of a set of numbers that is not empty
Least(S) == CHOOSE n \in S : \A m \in S : n <= m

\* no line ends between the indexes lo and hi of text
OneLine(text, lo, hi) == \A i \in lo..hi : i \in 1..Len(text) => text[i] # "\n"

\* html.match(/^Title:\s*(.*)$/m) (line 260): <<>> for no match, or <<the
\* text of the group>>
TitleMatch(text) ==
    LET starts == {i \in 1..Len(text) :
                      (i = 1 \/ text[i - 1] = "\n") /\ At(text, i, <<"T","i","t","l","e",":">>)}
        Captured(from) ==
            IF from = 0 THEN <<>>
            ELSE SubSeq(text, from,
                        IF FirstFrom(text, {"\n"}, from) = 0 THEN Len(text)
                        ELSE FirstFrom(text, {"\n"}, from) - 1)
    IN IF starts = {} THEN <<>>
       ELSE <<Captured(FirstNotFrom(text, Whitespace, Least(starts) + 6))>>

\* the length of http:// or https:// at index i of text, 0 if neither is there
SchemeLength(text, i) ==
    IF At(text, i, <<"h","t","t","p","s",":","/","/">>) THEN 8 ELSE IF At(text, i, <<"h","t","t","p",":","/","/">>) THEN 7 ELSE 0

\* /!\[.*?\]\((https?:\/\/.*?)\)/ from "![" at index i with "](" at index j:
\* the index of the closing parenthesis, 0 for no match
TokenEnd(text, i, j) ==
    LET Close(k) == IF k # 0 /\ OneLine(text, i + 2, k - 1) THEN k ELSE 0
    IN IF At(text, j, <<"]","(">>) /\ SchemeLength(text, j + 2) > 0
       THEN Close(FirstFrom(text, {")"}, j + 2 + SchemeLength(text, j + 2)))
       ELSE 0

\* html.matchAll(/!\[.*?\]\((https?:\/\/.*?)\)/g) from index pos on (line 264):
\* the groups of the matches
RECURSIVE ImageTokensFrom(_, _)
ImageTokensFrom(text, pos) ==
    LET Ends(i) == {j \in (i + 2)..Len(text) : TokenEnd(text, i, j) # 0}
        starts == {i \in pos..Len(text) : At(text, i, <<"!","[">>) /\ Ends(i) # {}}
        Token(j, k) == <<SubSeq(text, j + 2, k - 1)>> \o ImageTokensFrom(text, k + 1)
        Match(i) == Token(Least(Ends(i)), TokenEnd(text, i, Least(Ends(i))))
    IN IF starts = {} THEN <<>> ELSE Match(Least(starts))

\* html.match(/(https?:\/\/.*?\.(?:png|jpg|jpeg|gif|webp|svg))/i) (lines
\* 270-272): <<>> for no match, or <<the text of the group>>
RawExts == {<<"p","n","g">>, <<"j","p","g">>, <<"j","p","e","g">>, <<"g","i","f">>, <<"w","e","b","p">>, <<"s","v","g">>}

\* the index after the extension that stands at index k of lower, 0 if none
ExtEnd(lower, k) ==
    IF \E e \in RawExts : At(lower, k, <<".">> \o e)
    THEN k + Len(CHOOSE e \in RawExts : At(lower, k, <<".">> \o e))
    ELSE 0

\* the last index of the match that starts at index i of lower, 0 if none
RawEnd(lower, i) ==
    LET dots == {k \in (i + SchemeLength(lower, i))..Len(lower) : ExtEnd(lower, k) # 0}
    IN IF SchemeLength(lower, i) = 0 \/ dots = {} THEN 0
       ELSE IF OneLine(lower, i, Least(dots)) THEN ExtEnd(lower, Least(dots))
       ELSE 0

RawImageMatch(text) ==
    LET starts == {i \in 1..Len(text) : RawEnd(toLowerCase(text), i) # 0}
    IN IF starts = {} THEN <<>>
       ELSE <<SubSeq(text, Least(starts), RawEnd(toLowerCase(text), Least(starts)))>>

\* lines 258-274: the title and the candidates of a Markdown body
MarkdownTitle(text) ==
    IF TitleMatch(text) = <<>> THEN PlaceholderTitle ELSE trim(TitleMatch(text)[1])

MarkdownCandidates(text) ==
    IF ImageTokensFrom(text, 1) # <<>> THEN ImageTokensFrom(text, 1)
    ELSE RawImageMatch(text)

\* getMeta(names) (lines 280-289): null is <<>>
RECURSIVE getMeta(_, _)
getMeta(doc, names) ==
    IF names = <<>> THEN <<>>
    ELSE IF doc.meta[names[1]] # <<>> THEN doc.meta[names[1]]
    ELSE getMeta(doc, Tail(names))

TitleNames == <<"og:title", "twitter:title", "title">>
ImageNames ==
    <<"og:image", "og:image:url", "og:image:secure_url", "twitter:image", "image",
      "thumbnailUrl">>
MetaNames == Range(TitleNames) \cup Range(ImageNames)

\* s.split(sep)[0]
BeforeFirst(s, sep) ==
    LET at == {i \in 1..Len(s) : At(s, i, sep)}
    IN IF sep = <<>> \/ at = {} THEN s ELSE Upto(s, Least(at) - 1)

\* lines 291-295
HtmlTitle(doc) ==
    LET Cut(raw) == trim(BeforeFirst(BeforeFirst(raw, <<" ","-"," ">>), <<" ","|"," ">>))
    IN Cut(IF getMeta(doc, TitleNames) # <<>> THEN getMeta(doc, TitleNames)
           ELSE IF doc.titleTag # <<>> THEN doc.titleTag
           ELSE PlaceholderTitle)

\* lines 297-307
MetaCandidates(doc) ==
    IF getMeta(doc, ImageNames) = <<>> THEN <<>> ELSE <<getMeta(doc, ImageNames)>>

\* Number(digits) of a string of decimal digits
RECURSIVE DecimalValue(_, _)
DecimalValue(digits, acc) ==
    IF digits = <<>> THEN acc
    ELSE DecimalValue(Tail(digits), acc * 10 + DigitValueOf[digits[1]])

\* p.match(/^(\S+)\s+(\d+)w$/) (line 192): <<>> for no match, or
\* <<[url, w]>>
SrcsetPart(p) ==
    LET Width(url, tail) ==
            IF /\ Len(tail) >= 2
               /\ tail[Len(tail)] = "w"
               /\ \A i \in 1..(Len(tail) - 1) : IsDigit(tail[i])
            THEN <<[url |-> url, w |-> DecimalValue(Upto(tail, Len(tail) - 1), 0)]>>
            ELSE <<>>
        Split(space, rest) ==
            IF space <= 1 \/ rest = 0 THEN <<>>
            ELSE Width(Upto(p, space - 1), From(p, rest))
    IN Split(FirstOf(p, Whitespace),
             IF FirstOf(p, Whitespace) = 0 THEN 0
             ELSE FirstNotFrom(p, Whitespace, FirstOf(p, Whitespace)))

\* lines 190-200: the loop over the parts, null is <<>>
RECURSIVE SrcsetLoop(_, _, _)
SrcsetLoop(parts, bestUrl, bestW) ==
    IF parts = <<>> THEN bestUrl
    ELSE IF SrcsetPart(parts[1]) # <<>> /\ SrcsetPart(parts[1])[1].w > bestW
    THEN SrcsetLoop(Tail(parts), SrcsetPart(parts[1])[1].url, SrcsetPart(parts[1])[1].w)
    ELSE SrcsetLoop(Tail(parts), bestUrl, bestW)

\* parseSrcsetLargest (lines 181-203): srcset and the result are <<>> for null
parseSrcsetLargest(srcset) ==
    LET Trimmed(parts) == [i \in 1..Len(parts) |-> trim(parts[i])]
    IN IF srcset = <<>> THEN <<>>
       ELSE SrcsetLoop(SelectSeq(Trimmed(SplitOn(srcset, {","})), LAMBDA p : p # <<>>),
                       <<>>, -1)

MaxImgNodes == 40

\* lines 317-323: src of an img element, null is <<>>
SrcOf(img) ==
    IF img.src # <<>> THEN img.src
    ELSE IF img.dataSrc # <<>> THEN img.dataSrc
    ELSE IF img.dataLazySrc # <<>> THEN img.dataLazySrc
    ELSE img.dataOriginal

\* lines 309-326
RECURSIVE CandidatesOfNodes(_)
CandidatesOfNodes(imgNodes) ==
    IF imgNodes = <<>> THEN <<>>
    ELSE (IF SrcOf(imgNodes[1]) # <<>> THEN <<SrcOf(imgNodes[1])>> ELSE <<>>)
         \o (IF parseSrcsetLargest(imgNodes[1].srcset) # <<>>
             THEN <<parseSrcsetLargest(imgNodes[1].srcset)>> ELSE <<>>)
         \o CandidatesOfNodes(Tail(imgNodes))

BodyCandidates(doc) == CandidatesOfNodes(Upto(doc.imgs, Min(MaxImgNodes, Len(doc.imgs))))

\* URL.origin
Origin(u) ==
    IF IsSpecial(u.scheme) /\ u.scheme # <<"f","i","l","e">>
    THEN u.scheme \o <<":", "/", "/">> \o u.host
         \o (IF u.port = <<>> THEN <<>> ELSE <<":">> \o NumberToString(u.port[1]))
    ELSE <<"n","u","l","l">>

\* lines 338-351: image is <<>> for undefined, or <<string>>
NormalizeImage(pageUrl, picture) ==
    LET Based(base, img) ==
            IF ~base.ok THEN <<>>
            ELSE IF startsWith(img, <<"/","/">>) THEN <<base.scheme \o <<":">> \o img>>
            ELSE IF startsWith(img, <<"/">>) THEN <<Origin(base) \o img>>
            ELSE <<Origin(base) \o <<"/">> \o img>>
    IN IF picture = <<>> THEN <<>>
       ELSE IF startsWith(picture[1], <<"h","t","t","p">>) THEN picture
       ELSE Based(ParseURL(pageUrl), picture[1])

\* lines 353-355
KeepLikely(picture) ==
    IF picture # <<>> /\ ~isLikelyImageUrl(picture[1]) THEN <<>> ELSE picture

TitleCap == 150
TitleKept == 147

\* line 358
CapTitle(text) ==
    IF Len(text) > TitleCap THEN Upto(text, TitleKept) \o <<".",".",".">> ELSE text

\* line 251
PlaceholderResult(pageUrl) ==
    [title |-> PlaceholderTitle, image |-> <<>>, url |-> pageUrl]

\* lines 357-361
ResultOf(pageUrl, text, picture) ==
    [title |-> CapTitle(text), image |-> KeepLikely(NormalizeImage(pageUrl, picture)),
     url |-> pageUrl]

(***************************************************************************)
(* The calls of fetchMetadata.  A response is [kind, text, doc]: kind is   *)
(* "error" when fetch or response.text() rejects, "status" when            *)
(* response.ok is false, "ok" otherwise, with the text of the body and,    *)
(* for the first proxy, the document of that text.                         *)
(***************************************************************************)
EmptyDoc == [meta |-> [n \in MetaNames |-> <<>>], titleTag |-> <<>>, imgs |-> <<>>]

Img(src, dataSrc, srcset) ==
    [src |-> src, dataSrc |-> dataSrc, dataLazySrc |-> <<>>, dataOriginal |-> <<>>,
     srcset |-> srcset]

\* text followed by line ends up to the length n
Padded(text, n) == text \o [i \in 1..(n - Len(text)) |-> "\n"]

RespError == [kind |-> "error", text |-> <<>>, doc |-> EmptyDoc]
RespStatus == [kind |-> "status", text |-> <<>>, doc |-> EmptyDoc]
Page(text, n, doc) == [kind |-> "ok", text |-> Padded(text, n), doc |-> doc]

PageForbidden ==
    Page(<<"<","h","1",">","4","0","3"," ","F","o","r","b","i","d","d","e","n","<","/","h","1",">">>, MinBodyLength,
         [EmptyDoc EXCEPT !.titleTag = <<"4","0","3"," ","F","o","r","b","i","d","d","e","n">>])
PageBotCheck ==
    Page(<<"<","d","i","v"," ","i","d","=","c","f","-","b","r","o","w","s","e","r","-","v","e","r","i","f","i","c","a","t","i","o","n",">">>, MinBodyLength, EmptyDoc)
PageShort ==
    Page(<<"<","t","i","t","l","e",">","S","h","o","r","t","<","/","t","i","t","l","e",">">>, MinBodyLength - 1, [EmptyDoc EXCEPT !.titleTag = <<"S","h","o","r","t">>])
PageMeta ==
    Page(<<"<","t","i","t","l","e",">","P","o","s","t","<","/","t","i","t","l","e",">">>, MinBodyLength,
         [meta |-> [n \in MetaNames |->
                       IF n = "og:title" THEN <<" ","P","o","s","t"," ","-"," ","S","i","t","e"," ","|"," ","B","l","o","g">>
                       ELSE IF n = "og:image" THEN CandExternalStrong ELSE <<>>],
          titleTag |-> <<"O","t","h","e","r">>,
          imgs |-> <<Img(CandRooted, <<>>, <<>>)>>])
PageWeakMeta ==
    Page(<<"<","t","i","t","l","e",">","T"," ","|"," ","S","<","/","t","i","t","l","e",">">>, MinBodyLength + 1,
         [meta |-> [n \in MetaNames |->
                       IF n = "og:image:url" THEN CandExternalWeak
                       ELSE IF n = "twitter:image" THEN CandSubdomain ELSE <<>>],
          titleTag |-> <<"T"," ","|"," ","S">>,
          imgs |-> <<Img(CandExternalStrong, <<>>, <<>>),
                     Img(<<>>, CandRelative, <<"/","c",".","j","p","g"," ","3","0","0","w",","," ","/","w","p","-","c","o","n","t","e","n","t","/","u","p","l","o","a","d","s","/","2","0","2","4","/","p","h","o","t","o","-","1","2","0","0","x","8","0","0",".","j","p","g"," ","1","2","0","0","w">>)>>])
PageDataMeta ==
    Page(<<"<","m","e","t","a"," ","n","a","m","e","=","i","m","a","g","e",">">>, MinBodyLength,
         [meta |-> [n \in MetaNames |->
                       IF n = "image" THEN <<"d","a","t","a",":","i","m","a","g","e","/","i","m","g","-","m","a","i","n",".","j","p","g">> ELSE <<>>],
          titleTag |-> [i \in 1..(TitleCap + 1) |-> "a"],
          imgs |-> <<>>])
PageBare == Page(<<"<","p",">","C","l","o","u","d","f","l","a","r","e","<","/","p",">">>, MinBodyLength, [EmptyDoc EXCEPT !.imgs = <<Img(CandLogo, <<>>, <<>>)>>])

HtmlResponses ==
    {RespError, RespStatus, PageForbidden, PageBotCheck, PageShort, PageMeta, PageWeakMeta,
     PageDataMeta, PageBare}

Markdown(text) == [kind |-> "ok", text |-> text, doc |-> EmptyDoc]
MarkdownEmpty == Markdown(<<>>)
MarkdownForbidden == Markdown(<<"T","i","t","l","e",":"," ","4","0","3"," ","F","o","r","b","i","d","d","e","n","\n","\n","U","R","L"," ","S","o","u","r","c","e",":"," ","h","t","t","p","s",":","/","/","s","i","t","e",".","c","o","m","/","p","o","s","t","\n">>)
MarkdownPlain == Markdown(<<"h","e","l","l","o">>)
MarkdownPost ==
    Markdown(<<"T","i","t","l","e",":"," "," ","P","o","s","t"," ","\n","\n","!","[","a","]","(","h","t","t","p","s",":","/","/","e","v","i","l",".","c","o","m","/","w","p","-","c","o","n","t","e","n","t","/","u","p","l","o","a","d","s","/","b",".","j","p","g",")"," ","!","[","b","]","(","h","t","t","p","s",":","/","/","s","i","t","e",".","c","o","m","/","h","e","r","o",".","j","p","g",")">>)
MarkdownRaw == Markdown(<<"s","e","e"," ","h","t","t","p","s",":","/","/","c","d","n",".","s","i","t","e",".","c","o","m","/","h","e","r","o",".","j","p","g","\n","T","i","t","l","e",":","\n">>)

MarkdownResponses ==
    {RespError, RespStatus, MarkdownEmpty, MarkdownForbidden, MarkdownPlain, MarkdownPost,
     MarkdownRaw}

FetchUrls == {PagePost, <<"b","l","o","g",".","s","i","t","e",".","c","o","m","/","a","/","b">>}

HtmlProxy == "api.allorigins.win"
MarkdownProxy == "r.jina.ai"

InitFetch ==
    /\ \E u \in FetchUrls : targetUrl = TargetUrl(u)
    /\ pc = "start"
    /\ requests = <<>>
    /\ responses = <<>>
    /\ html = <<>>
    /\ isMarkdown = FALSE
    /\ title = <<>>
    /\ image = <<>>
    /\ fetchResult = <<>>
    /\ IdleApp
    /\ IdleMerge
    /\ IdleKey
    /\ IdleValidate
    /\ IdleField
    /\ IdlePick
    /\ IdlePreview

\* lines 216-220: the fetch of the first proxy
fetchHtmlProxy ==
    /\ pc = "start"
    /\ requests' = Append(requests, HtmlProxy)
    /\ pc' = "await1"
    /\ UNCHANGED <<targetUrl, responses, html, isMarkdown, title, image, fetchResult, appVars,
                   mergeVars, keyVars, validateVars, fieldVars, pickVars, previewVars>>

\* lines 221-231: html after the response r of the first proxy
HtmlAfter(r) ==
    IF r.kind = "ok" /\ ~Discarded(r.text) THEN r.text ELSE <<>>

\* lines 220-240: the first proxy answers; and the fetch of the second proxy
\* when html is empty
htmlProxyResponds ==
    /\ pc = "await1"
    /\ \E r \in HtmlResponses :
          /\ responses' = Append(responses, r)
          /\ html' = HtmlAfter(r)
          /\ IF HtmlAfter(r) = <<>>
             THEN requests' = Append(requests, MarkdownProxy) /\ pc' = "await2"
             ELSE requests' = requests /\ pc' = "extract"
    /\ UNCHANGED <<targetUrl, isMarkdown, title, image, fetchResult, appVars, mergeVars,
                   keyVars, validateVars, fieldVars, pickVars, previewVars>>

\* lines 240-252: the second proxy answers
markdownProxyResponds ==
    /\ pc = "await2"
    /\ \E r \in MarkdownResponses :
          /\ responses' = Append(responses, r)
          /\ IF r.kind = "ok"
             THEN html' = r.text /\ isMarkdown' = TRUE
             ELSE html' = html /\ isMarkdown' = isMarkdown
          /\ IF r.kind # "ok" \/ r.text = <<>>
             THEN fetchResult' = <<PlaceholderResult(targetUrl)>> /\ pc' = "done"
             ELSE fetchResult' = fetchResult /\ pc' = "extract"
    /\ UNCHANGED <<targetUrl, requests, title, image, appVars, mergeVars, keyVars,
                   validateVars, fieldVars,
                   pickVars, previewVars>>

\* lines 255-274, to the call of pickBestImage
extractMarkdown ==
    /\ pc = "extract"
    /\ isMarkdown
    /\ title' = MarkdownTitle(html)
    /\ IF MarkdownCandidates(html) # <<>>
       THEN /\ argPageUrl' = targetUrl
            /\ argCandidates' = MarkdownCandidates(html)
            /\ argAllowExternal' = FALSE
            /\ pc' = "pickMarkdown"
       ELSE /\ UNCHANGED <<argPageUrl, argCandidates, argAllowExternal>>
            /\ pc' = "return"
    /\ UNCHANGED <<picked, targetUrl, requests, responses, html, isMarkdown, image, fetchResult,
                   appVars, mergeVars, keyVars, validateVars, fieldVars, previewVars>>

\* lines 255-257 and 276-331, to the call of pickBestImage
extractHtml ==
    /\ pc = "extract"
    /\ ~isMarkdown
    /\ title' = HtmlTitle(responses[1].doc)
    /\ argPageUrl' = targetUrl
    /\ argCandidates' = MetaCandidates(responses[1].doc)
    /\ argAllowExternal' = TRUE
    /\ pc' = "pickMeta"
    /\ UNCHANGED <<picked, targetUrl, requests, responses, html, isMarkdown, image, fetchResult,
                   appVars, mergeVars, keyVars, validateVars, fieldVars, previewVars>>

\* pickBestImage returns to fetchMetadata
callPickBestImage ==
    /\ pc \in {"pickMarkdown", "pickMeta", "pickBody"}
    /\ picked = <<>>
    /\ picked' = <<pickBestImage(argPageUrl, argCandidates, argAllowExternal)>>
    /\ UNCHANGED <<argPageUrl, argCandidates, argAllowExternal, fetchVars, appVars, mergeVars,
                   keyVars, validateVars, fieldVars, previewVars>>

\* line 332 with the call of line 333 made after every call of line 329
UseBodyAlways(picture) == TRUE

\* line 332: if (!image)
UseBody(picture) == picture = <<>>

\* lines 329-333: image after the call for the meta candidates, and the call
\* for the body candidates
metaImagePicked ==
    /\ pc = "pickMeta"
    /\ picked # <<>>
    /\ image' = picked[1]
    /\ IF UseBody(picked[1])
       THEN /\ argCandidates' = BodyCandidates(responses[1].doc)
            /\ argAllowExternal' = FALSE
            /\ picked' = <<>>
            /\ pc' = "pickBody"
       ELSE /\ UNCHANGED <<argCandidates, argAllowExternal, picked>>
            /\ pc' = "return"
    /\ UNCHANGED <<argPageUrl, targetUrl, requests, responses, html, isMarkdown, title,
                   fetchResult, appVars, mergeVars, keyVars, validateVars, fieldVars,
                   previewVars>>

\* lines 267, 273 and 333: image after the call
imagePicked ==
    /\ pc \in {"pickMarkdown", "pickBody"}
    /\ picked # <<>>
    /\ image' = picked[1]
    /\ pc' = "return"
    /\ UNCHANGED <<pickVars, targetUrl, requests, responses, html, isMarkdown, title,
                   fetchResult, appVars, mergeVars, keyVars, validateVars, fieldVars,
                   previewVars>>

\* lines 337-361
returnMetadata ==
    /\ pc = "return"
    /\ fetchResult' = <<ResultOf(targetUrl, title, image)>>
    /\ pc' = "done"
    /\ UNCHANGED <<pickVars, targetUrl, requests, responses, html, isMarkdown, title, image,
                   appVars, mergeVars, keyVars, validateVars, fieldVars, previewVars>>

NextFetch ==
    \/ fetchHtmlProxy
    \/ htmlProxyResponds
    \/ markdownProxyResponds
    \/ extractMarkdown
    \/ extractHtml
    \/ callPickBestImage
    \/ metaImagePicked
    \/ imagePicked
    \/ returnMetadata

SpecFetch == InitFetch /\ [][NextFetch]_vars

\* a response with a body that is neither a block page nor shorter than the
\* minimum length
UsableBody(r) ==
    /\ r.kind = "ok"
    /\ ~includes(toLowerCase(r.text), ForbiddenMarker)
    /\ \A marker \in CloudflareMarkers : ~includes(r.text, marker)
    /\ Len(r.text) >= MinBodyLength

\* C17: a call of fetchMetadata that has returned has returned a value with
\* the target url and a title; and if no response had a usable body, the
\* value is the placeholder title with the url and no image.
C17_PlaceholderWithoutUsableBody ==
    pc = "done"
    => /\ fetchResult # <<>>
       /\ {"title", "url"} \subseteq DOMAIN fetchResult[1]
       /\ fetchResult[1].url = targetUrl
       /\ (\A i \in 1..Len(responses) : ~UsableBody(responses[i]))
             => fetchResult[1] = PlaceholderResult(targetUrl)

\* C18: the second proxy is fetched only after the first has answered and
\* only if that answer was an error, a status that is not a success, a block
\* page or a body below the minimum length, and then it is fetched; a usable
\* body of the first proxy is extracted as HTML with no second fetch, and
\* otherwise a body of the second proxy is extracted as Markdown.
C18_FallbackOrdering ==
    /\ MarkdownProxy \in Range(requests)
          => /\ requests = <<HtmlProxy, MarkdownProxy>>
             /\ Len(responses) >= 1
             /\ ~UsableBody(responses[1])
    /\ (Len(responses) >= 1 /\ UsableBody(responses[1]))
          => /\ requests = <<HtmlProxy>>
             /\ ~isMarkdown
             /\ pc = "done" => fetchResult[1].title = CapTitle(HtmlTitle(responses[1].doc))
    /\ (Len(responses) >= 1 /\ ~UsableBody(responses[1]))
          => requests = <<HtmlProxy, MarkdownProxy>>
    /\ (pc = "done" /\ Len(responses) = 2 /\ responses[2].kind = "ok" /\ responses[2].text # <<>>)
          => /\ isMarkdown
             /\ fetchResult[1].title = CapTitle(MarkdownTitle(responses[2].text))

\* the first proxy gave a body one character below the minimum length, the
\* second proxy was fetched, and its body was extracted as Markdown
C18_Witness ==
    /\ pc = "done"
    /\ responses = <<PageShort, MarkdownPost>>
    /\ requests = <<HtmlProxy, MarkdownProxy>>
    /\ fetchResult[1].title = <<"P","o","s","t">>

\* C19: in the extraction of HTML the image is the one the meta candidates
\* give, with external hosts allowed, whenever they give one; the one the
\* img candidates give under the same-host policy is used only when the meta
\* candidates give none.
C19_MetaPrecedence ==
    (pc = "done" /\ Len(responses) = 1)
    => LET Chosen(metaImage) ==
               IF metaImage # <<>> THEN metaImage
               ELSE pickBestImage(targetUrl, BodyCandidates(responses[1].doc), FALSE)
       IN fetchResult[1].image
             = KeepLikely(NormalizeImage(targetUrl,
                  Chosen(pickBestImage(targetUrl, MetaCandidates(responses[1].doc), TRUE))))

\* the meta candidate on an external host was chosen although the document
\* has an img on the host of the page that scores at least 2
C19_Witness ==
    /\ pc = "done"
    /\ responses = <<PageMeta>>
    /\ pickBestImage(targetUrl, BodyCandidates(PageMeta.doc), FALSE) # <<>>
    /\ fetchResult[1].image = <<CandExternalStrong>>

\* the content of every tag among ImageNames that the document has
RECURSIVE PresentMeta(_, _)
PresentMeta(doc, names) ==
    IF names = <<>> THEN <<>>
    ELSE (IF doc.meta[names[1]] # <<>> THEN <<doc.meta[names[1]]>> ELSE <<>>)
         \o PresentMeta(doc, Tail(names))

\* C26: in the extraction of HTML, when the content of the first meta image
\* tag the document has gives no image but the contents of all the meta
\* image tags it has, scored together with external hosts allowed, give one,
\* that one is the image of the result.
C26_LaterMetaTagSelected ==
    (/\ pc = "done"
     /\ Len(responses) = 1
     /\ Len(PresentMeta(responses[1].doc, ImageNames)) > 1
     /\ pickBestImage(targetUrl, <<PresentMeta(responses[1].doc, ImageNames)[1]>>, TRUE) = <<>>)
    => LET together == pickBestImage(targetUrl, PresentMeta(responses[1].doc, ImageNames), TRUE)
       IN together # <<>>
             => fetchResult[1].image = KeepLikely(NormalizeImage(targetUrl, together))

(***************************************************************************)
(* SpecFetchFair: fetchMetadata with the steps of its own code taken       *)
(* whenever they can be taken.  The answers of the proxies are the         *)
(* transport's: a fetch() of lines 219 and 240 is given no signal and no   *)
(* timer, so nothing in the code makes a pending fetch settle, and the     *)
(* specification asks no fairness of htmlProxyResponds and                 *)
(* markdownProxyResponds.  The extraction of lines 255-361 awaits nothing, *)
(* and is one step here; ExtractionInOneStep states that it gives what the *)
(* steps of SpecFetch give.                                                *)
(***************************************************************************)
FetchTargets == {TargetUrl(u) : u \in FetchUrls}

\* the answers after which lines 255-361 run: a body of the first proxy
\* that is kept, or a body of the second proxy after one that is not
Extractable ==
    {<<r>> : r \in {x \in HtmlResponses : HtmlAfter(x) # <<>>}}
    \cup {<<r1, r2>> : r1 \in {x \in HtmlResponses : HtmlAfter(x) = <<>>},
                       r2 \in {x \in MarkdownResponses : x.kind = "ok" /\ x.text # <<>>}}

\* lines 255-361: title, image and the value returned after the answers rs
Extracted(pageUrl, rs) ==
    LET markdown == Len(rs) = 2
        body == rs[Len(rs)].text
        doc == rs[1].doc
        heading == IF markdown THEN MarkdownTitle(body) ELSE HtmlTitle(doc)
        fromMeta == pickBestImage(pageUrl, MetaCandidates(doc), TRUE)
        picture ==
            IF markdown
            THEN IF MarkdownCandidates(body) # <<>>
                 THEN pickBestImage(pageUrl, MarkdownCandidates(body), FALSE)
                 ELSE <<>>
            ELSE IF UseBody(fromMeta)
                 THEN pickBestImage(pageUrl, BodyCandidates(doc), FALSE)
                 ELSE fromMeta
    IN [title |-> heading, image |-> picture, result |-> ResultOf(pageUrl, heading, picture)]

ExtractedOf == [u \in FetchTargets, rs \in Extractable |-> Extracted(u, rs)]

\* lines 255-361
extractAndReturn ==
    /\ pc = "extract"
    /\ title' = ExtractedOf[targetUrl, responses].title
    /\ image' = ExtractedOf[targetUrl, responses].image
    /\ fetchResult' = <<ExtractedOf[targetUrl, responses].result>>
    /\ pc' = "done"
    /\ UNCHANGED <<pickVars, targetUrl, requests, responses, html, isMarkdown, appVars,
                   mergeVars, keyVars, validateVars, fieldVars, previewVars>>

NextFetchFair ==
    \/ fetchHtmlProxy
    \/ htmlProxyResponds
    \/ markdownProxyResponds
    \/ extractAndReturn

SpecFetchFair ==
    /\ InitFetch
    /\ [][NextFetchFair]_vars
    /\ WF_vars(fetchHtmlProxy)
    /\ WF_vars(extractAndReturn)

\* under SpecFetch: the call that has extracted has the title, the image and
\* the value of Extracted
ExtractionInOneStep ==
    (pc = "done" /\ responses \in Extractable)
    => /\ title = ExtractedOf[targetUrl, responses].title
       /\ image = ExtractedOf[targetUrl, responses].image
       /\ fetchResult = <<ExtractedOf[targetUrl, responses].result>>

\* C25: every call of fetchMetadata returns, whatever the transport does
\* with the two fetches: a fetch that never completes counts as a failed
\* attempt and the call goes on to the next attempt or to the placeholder.
C25_EventuallyReturns == <>(pc = "done")

(***************************************************************************)
(* The calls of validateUrl (App.tsx, lines 558-591): one call for each    *)
(* input, written as what stands before the host, the host and what stands *)
(* after it.                                                               *)
(***************************************************************************)
ExampleInput == <<"e","x","a","m","p","l","e",".","c","o","m">>
\* http or https, a colon and one slash, or three
TypoPrefixes ==
    {<<"h","t","t","p",":","/">>, <<"h","t","t","p","s",":","/">>,
     <<"h","t","t","p",":","/","/","/">>, <<"h","t","t","p","s",":","/","/","/">>}
ValidatePrefixes ==
    TypoPrefixes \cup
    {<<>>, <<" ">>, <<"h","t","t","p","s",":","/","/">>, <<"h","t","t","p",":","/","/">>, <<"h","t","t","p",":","/">>, <<"h","t","t","p","s",":","/","/","/">>, <<"h","t","t","s",":","/","/">>, <<"f","t","p",":","/","/">>,
     <<"H","T","T","P","S",":","/","/">>, <<"m","a","i","l","t","o",":">>}
ValidateHosts ==
    {<<>>, ExampleInput, <<"e","x","a","m","p","l","e">>, <<"e","x","a"," ","m","p","l","e",".","c","o","m">>, <<"a",".","b">>, <<"a","b">>, <<"a",".">>, <<".">>,
     <<"u",".","v","@","a","b">>, <<"u",".","v","@","h","o","s","t">>, <<"E","X","A","M","P","L","E",".","c","o","m",":","4","4","3">>, <<"e","x","a","\t","m","p","l","e",".","c","o","m">>}
ValidateSuffixes == {<<>>, <<" ">>, <<"/">>, <<"/","a"," ","b">>, <<"/","p",".","q","?","r","#","s">>}
ValidateInputs ==
    {prefix \o host \o suffix :
        prefix \in ValidatePrefixes, host \in ValidateHosts, suffix \in ValidateSuffixes}

InitValidate ==
    /\ argUrl \in ValidateInputs
    /\ validation = <<>>
    /\ IdleApp
    /\ IdleMerge
    /\ IdleKey
    /\ IdleField
    /\ IdlePick
    /\ IdleFetch
    /\ IdlePreview

\* validateUrl(url) returns
validate ==
    /\ validation = <<>>
    /\ validation' = <<validateUrl(argUrl)>>
    /\ UNCHANGED <<argUrl, appVars, mergeVars, keyVars, fieldVars, pickVars, fetchVars,
                   previewVars>>

NextValidate == validate

SpecValidate == InitValidate /\ [][NextValidate]_vars

\* C20: validateUrl returns an error for every input that, trimmed, is empty,
\* contains whitespace or contains no "."; the URL it returns with no error
\* has a hostname of at least 3 characters that contains a "."; and
\* example.com is accepted as https://example.com/.
C20_ValidateRejects ==
    validation # <<>>
    => /\ (\/ trim(argUrl) = <<>>
           \/ Range(trim(argUrl)) \cap Whitespace # {}
           \/ "." \notin Range(trim(argUrl)))
             => validation[1].error # ""
       /\ validation[1].error = ""
             => /\ ParseURL(validation[1].normalized).ok
                /\ Len(Hostname(ParseURL(validation[1].normalized))) >= 3
                /\ "." \in Range(Hostname(ParseURL(validation[1].normalized)))
       /\ argUrl = ExampleInput
             => validation[1] = [error |-> "", normalized |-> <<"h","t","t","p","s",":","/","/","e","x","a","m","p","l","e",".","c","o","m","/">>]

\* example.com was accepted; and another call rejected an input that
\* contains a "." and no whitespace for the hostname of its URL
C20_Witness ==
    /\ validation # <<>>
    /\ \/ /\ argUrl = ExampleInput
          /\ validation[1].normalized = <<"h","t","t","p","s",":","/","/","e","x","a","m","p","l","e",".","c","o","m","/">>
       \/ /\ argUrl = <<"u",".","v","@","a","b">>
          /\ validation[1].error = ErrDomain

\* C21: for an input that is http or https, a colon and one slash or three
\* slashes before the host example.com, validateUrl returns no error and the
\* URL https://example.com/ followed by what stands after the host.
C21_TypoCorrected ==
    validation # <<>>
    => \A typo \in TypoPrefixes :
          /\ argUrl \in {typo \o ExampleInput, typo \o ExampleInput \o <<"/">>}
                => validation[1] = [error |-> "", normalized |-> <<"h","t","t","p","s",":","/","/","e","x","a","m","p","l","e",".","c","o","m","/">>]
          /\ argUrl = typo \o ExampleInput \o <<"/","p",".","q","?","r","#","s">>
                => validation[1] = [error |-> "", normalized |-> <<"h","t","t","p","s",":","/","/","e","x","a","m","p","l","e",".","c","o","m","/","p",".","q","?","r","#","s">>]

====
